---- MODULE Spec2Model ----
(***************************************************************************)
(* State-machine models of the arcade games of the repository.  Each game  *)
(* component is one record-valued variable whose fields are the fields of  *)
(* the component class; every method is an operator from component state   *)
(* (and the method's inputs, random draws included) to component state,    *)
(* and every event handler is one action.  The browser side (pending       *)
(* animation-frame callbacks, interval timers, the clock) is kept in its   *)
(* own variables.                                                          *)
(***************************************************************************)
EXTENDS Integers, Sequences, FiniteSets, TLC

VARIABLES
    shapeDrop,   \* ShapeDropComponent (the falling-piece game)
    pending,     \* requestAnimationFrame handles not yet run, oldest first
    loopCalls,   \* history: the last two gameLoop invocations
    now,         \* the browser clock, in ms since the time origin
    snakeGame,   \* SnakeGameComponent
    intervals,   \* the setInterval timers that are active: [id, delay]
    localStorage, \* the item 'snakeHighScore' of window.localStorage
    viewport,    \* window.innerWidth and window.innerHeight
    spaceRocks,  \* SpaceRocksGameComponent (the asteroid game)
    bustout,     \* BustoutGameComponent (the brick game)
    frogger,     \* the frog-crossing game component
    invaders,    \* the invader game component
    hung,        \* TRUE once a handler entered a loop that never ends
    mounted,     \* TRUE between ngOnInit and ngOnDestroy of the component
    lastEvent,   \* history: the last event delivered and what it found
    steps        \* history: number of events delivered so far

dropVars == <<shapeDrop, loopCalls>>
snakeVars == <<snakeGame, intervals, localStorage, viewport>>

arcadeVars == <<bustout, frogger, invaders>>

vars == <<dropVars, snakeVars, spaceRocks, arcadeVars, pending, hung, now, mounted,
          lastEvent, steps>>

\* the variables of the games a specification does not mount
NoDrop == shapeDrop = <<>> /\ loopCalls = <<>>
NoSnake ==
    /\ snakeGame = <<>> /\ intervals = {} /\ localStorage = <<>>
    /\ viewport = <<>>
NoRocks == spaceRocks = <<>>
NoBustout == bustout = <<>>
NoFrogger == frogger = <<>>
NoInvaders == invaders = <<>>
NoArcade == NoBustout /\ NoFrogger /\ NoInvaders
OutsideDrop == <<snakeVars, spaceRocks, arcadeVars, hung>>
OutsideSnake == <<dropVars, spaceRocks, arcadeVars, pending>>
OutsideRocks == <<dropVars, snakeVars, arcadeVars>>
OutsideBustout == <<dropVars, snakeVars, spaceRocks, frogger, invaders, hung, now>>
OutsideFrogger == <<dropVars, snakeVars, spaceRocks, bustout, invaders, hung>>
OutsideInvaders == <<dropVars, snakeVars, spaceRocks, bustout, frogger, hung>>

(***************************************************************************)
(* Bounds of the exploration.                                              *)
(***************************************************************************)
\* events (keys, clicks, frames) delivered to the falling-piece game
MaxDropSteps == 4
\* events (keys, resizes, ticks) delivered to the snake game
MaxSnakeSteps == 6
\* events (keys, resizes, frames) delivered to the asteroid game
MaxRocksSteps == 4
\* full rows of a board handed to clearLines
MaxFullRows == 4
\* ms since the time origin at which the falling-piece game is mounted
MountTime == 2000

\* ms between two animation frames: a 60 Hz frame, and a slow frame
FrameGaps == {16, 600}
\* ms between the last frame and a click on RESTART
ClickDelays == {5, 3000}
\* ms between two animation frames of the asteroid game: 60 Hz, and slow
RocksGaps == {16, 300}
\* values of Math.floor(Math.random() * 7) + 1 explored (O, T)
PieceDraws == {2, 3}

Min(S) == CHOOSE m \in S : \A n \in S : m <= n
Max(S) == CHOOSE m \in S : \A n \in S : m >= n
Max2(a, b) == IF a >= b THEN a ELSE b
Range(q) == {q[i] : i \in DOMAIN q}
\* F applied to a value that is computed once
Then(value, F(_)) == CHOOSE r \in {F(v) : v \in {value}} : TRUE
Remove(q, e) == SelectSeq(q, LAMBDA z : z # e)

\* A handle returned by requestAnimationFrame / setInterval: non-zero and
\* different from every live handle and from the handle the caller holds.
\* (Browsers count upwards; only the identity of a handle is observable.)
FreshHandle(live, held) ==
    Min((1..(Cardinality(live) + 2)) \ (live \cup {held}))

(***************************************************************************)
(* The falling-piece game: src/src/app/shape-drop/shape-drop.component.ts  *)
(***************************************************************************)
COLS == 10
ROWS == 20

SHAPES == <<
    [pattern |-> <<<<0, 0, 0, 0>>, <<1, 1, 1, 1>>, <<0, 0, 0, 0>>, <<0, 0, 0, 0>>>>,
     color |-> "#00ffff"],
    [pattern |-> <<<<1, 1>>, <<1, 1>>>>, color |-> "#ffff00"],
    [pattern |-> <<<<0, 1, 0>>, <<1, 1, 1>>, <<0, 0, 0>>>>, color |-> "#ff00ff"],
    [pattern |-> <<<<0, 1, 1>>, <<1, 1, 0>>, <<0, 0, 0>>>>, color |-> "#00ff00"],
    [pattern |-> <<<<1, 1, 0>>, <<0, 1, 1>>, <<0, 0, 0>>>>, color |-> "#ff0000"],
    [pattern |-> <<<<1, 0, 0>>, <<1, 1, 1>>, <<0, 0, 0>>>>, color |-> "#0000ff"],
    [pattern |-> <<<<0, 0, 1>>, <<1, 1, 1>>, <<0, 0, 0>>>>, color |-> "#ff7700"] >>

\* Array(COLS).fill(0) and the board initGame builds from it
EmptyRow == [col \in 1..COLS |-> 0]
EmptyBoard == [row \in 1..ROWS |-> EmptyRow]

\* index \in 1..7 stands for Math.floor(Math.random() * 7) + 1
createRandomPiece(index) == SHAPES[index]

\* pattern[row][col] and board[y][x] with the source's 0-based indices
Cell(pattern, row, col) == pattern[row + 1][col + 1]

\* mutant of isValidMove: only the walls and the floor are looked at
isValidMove_ignoresBoard(board, x, y, pattern) ==
    \A row \in 0..(Len(pattern) - 1) :
        \A col \in 0..(Len(pattern[row + 1]) - 1) :
            Cell(pattern, row, col) # 0 =>
                LET newX == x + col
                    newY == y + row
                IN  ~(newX < 0 \/ newX >= COLS \/ newY >= ROWS)

isValidMove(board, x, y, pattern) ==
    \A row \in 0..(Len(pattern) - 1) :
        \A col \in 0..(Len(pattern[row + 1]) - 1) :
            Cell(pattern, row, col) # 0 =>
                LET newX == x + col
                    newY == y + row
                IN  /\ ~(newX < 0 \/ newX >= COLS \/ newY >= ROWS)
                    /\ ~(newY >= 0 /\ Cell(board, newY, newX) # 0)

spawnPiece(c, index) ==
    LET piece == c.nextPiece
        pos == [x |-> (COLS \div 2) - (Len(piece.pattern[1]) \div 2), y |-> 0]
        c1 == [c EXCEPT !.currentPiece = piece,
                        !.nextPiece = createRandomPiece(index),
                        !.currentPosition = pos]
    IN  IF ~isValidMove(c1.board, pos.x, pos.y, piece.pattern)
        THEN [c1 EXCEPT !.gameOver = TRUE]
        ELSE c1

\* mutant of initGame: dropInterval is not set back
initGame_keepsDropInterval(c, first, second) ==
    spawnPiece([c EXCEPT !.board = EmptyBoard,
                         !.score = 0,
                         !.lines = 0,
                         !.level = 1,
                         !.gameOver = FALSE,
                         !.paused = FALSE,
                         !.dropCounter = 0,
                         !.nextPiece = createRandomPiece(first)],
               second)

\* first is the draw for nextPiece, second the draw made by spawnPiece
initGame(c, first, second) ==
    spawnPiece([c EXCEPT !.board = EmptyBoard,
                         !.score = 0,
                         !.lines = 0,
                         !.level = 1,
                         !.gameOver = FALSE,
                         !.paused = FALSE,
                         !.dropInterval = 1000,
                         !.dropCounter = 0,
                         !.nextPiece = createRandomPiece(first)],
               second)

moveLeft(c) ==
    IF isValidMove(c.board, c.currentPosition.x - 1, c.currentPosition.y,
                   c.currentPiece.pattern)
    THEN [c EXCEPT !.currentPosition.x = @ - 1]
    ELSE c

moveRight(c) ==
    IF isValidMove(c.board, c.currentPosition.x + 1, c.currentPosition.y,
                   c.currentPiece.pattern)
    THEN [c EXCEPT !.currentPosition.x = @ + 1]
    ELSE c

\* mutant of rotatePattern: cell (row, col) goes to (col, row)
rotatePattern_transposed(pattern) ==
    LET size == Len(pattern)
    IN  [i \in 1..size |-> [j \in 1..size |-> pattern[j][i]]]

rotatePattern(pattern) ==
    LET size == Len(pattern)
    IN  [i \in 1..size |-> [j \in 1..size |-> pattern[size + 1 - j][i]]]

\* mutant of kicks: the two-column kicks are tried before the one-column kicks
kicks_farFirst == << [x |-> -2, y |-> 0], [x |-> 2, y |-> 0], [x |-> -1, y |-> 0],
                     [x |-> 1, y |-> 0], [x |-> 0, y |-> -1] >>

\* the wall-kick offsets, in the order rotate() tries them
kicks == << [x |-> -1, y |-> 0], [x |-> 1, y |-> 0], [x |-> -2, y |-> 0],
            [x |-> 2, y |-> 0], [x |-> 0, y |-> -1] >>

KickValid(c, rotated, k) ==
    isValidMove(c.board, c.currentPosition.x + kicks[k].x,
                c.currentPosition.y + kicks[k].y, rotated)

\* mutant of rotate: the rotated pattern is kept when no offset is valid
rotate_keepsRotatedPattern(c) ==
    LET rotated == rotatePattern(c.currentPiece.pattern)
        ok == {k \in DOMAIN kicks : KickValid(c, rotated, k)}
    IN  IF isValidMove(c.board, c.currentPosition.x, c.currentPosition.y, rotated)
        THEN [c EXCEPT !.currentPiece.pattern = rotated]
        ELSE IF ok # {}
        THEN [c EXCEPT !.currentPiece.pattern = rotated,
                       !.currentPosition.x = @ + kicks[Min(ok)].x,
                       !.currentPosition.y = @ + kicks[Min(ok)].y]
        ELSE [c EXCEPT !.currentPiece.pattern = rotated]

rotate(c) ==
    LET rotated == rotatePattern(c.currentPiece.pattern)
        ok == {k \in DOMAIN kicks : KickValid(c, rotated, k)}
    IN  IF isValidMove(c.board, c.currentPosition.x, c.currentPosition.y, rotated)
        THEN [c EXCEPT !.currentPiece.pattern = rotated]
        ELSE IF ok # {}
        THEN [c EXCEPT !.currentPiece.pattern = rotated,
                       !.currentPosition.x = @ + kicks[Min(ok)].x,
                       !.currentPosition.y = @ + kicks[Min(ok)].y]
        ELSE c

\* SHAPES.findIndex(s => s.color === color) + 1
ColorIndex(color) == Min({i \in DOMAIN SHAPES : SHAPES[i].color = color})

\* the first loop of lockPiece: the piece's cells written into the board
PieceOnBoard(c) ==
    LET pattern == c.currentPiece.pattern
        Covers(x, y) ==
            LET row == y - c.currentPosition.y
                col == x - c.currentPosition.x
            IN  /\ row \in 0..(Len(pattern) - 1)
                /\ col \in 0..(Len(pattern[row + 1]) - 1)
                /\ Cell(pattern, row, col) # 0
        index == ColorIndex(c.currentPiece.color)
    IN  [r \in 1..ROWS |-> [k \in 1..COLS |->
            IF Covers(k - 1, r - 1) THEN index ELSE c.board[r][k]]]

\* board[row].every(cell => cell !== 0)
RowFull(board, row) == \A col \in 0..(COLS - 1) : Cell(board, row, col) # 0

\* mutant of clearFrom: the scan moves on to the next row after a cleared row
RECURSIVE clearFrom_skipsNext(_, _, _)
clearFrom_skipsNext(board, row, linesCleared) ==
    IF row < 0
    THEN [board |-> board, linesCleared |-> linesCleared]
    ELSE IF RowFull(board, row)
    THEN clearFrom_skipsNext(<<EmptyRow>> \o SubSeq(board, 1, row)
                                 \o SubSeq(board, row + 2, Len(board)),
                             row - 1, linesCleared + 1)
    ELSE clearFrom_skipsNext(board, row - 1, linesCleared)

\* the for loop of clearLines from index row on: a full row is spliced out, an
\* empty row is unshifted, and the same index is looked at again
RECURSIVE clearFrom(_, _, _)
clearFrom(board, row, linesCleared) ==
    IF row < 0
    THEN [board |-> board, linesCleared |-> linesCleared]
    ELSE IF RowFull(board, row)
    THEN clearFrom(<<EmptyRow>> \o SubSeq(board, 1, row) \o SubSeq(board, row + 2, Len(board)),
                   row, linesCleared + 1)
    ELSE clearFrom(board, row - 1, linesCleared)

clearLines(board) == clearFrom(board, ROWS - 1, 0)

points == <<0, 100, 300, 500, 800>>

\* mutant of lockPiece: the points are multiplied by the level after the
\* level-up check
lockPiece_scoresAtNewLevel(c, index) ==
    LET cleared == clearLines(PieceOnBoard(c))
        n == cleared.linesCleared
        c1 == [c EXCEPT !.board = cleared.board]
        c2 == [c1 EXCEPT !.lines = @ + n]
        newLevel == (c2.lines \div 10) + 1
        c3 == IF newLevel > c2.level
              THEN [c2 EXCEPT !.level = newLevel,
                              !.dropInterval = Max2(100, 1000 - (newLevel - 1) * 100)]
              ELSE c2
        c4 == [c3 EXCEPT !.score = @ + points[n + 1] * c3.level]
    IN  spawnPiece(IF n > 0 THEN c4 ELSE c1, index)

lockPiece(c, index) ==
    LET cleared == clearLines(PieceOnBoard(c))
        n == cleared.linesCleared
        c1 == [c EXCEPT !.board = cleared.board]
        c2 == [c1 EXCEPT !.lines = @ + n,
                         !.score = @ + points[n + 1] * c1.level]
        newLevel == (c2.lines \div 10) + 1
        c3 == IF newLevel > c2.level
              THEN [c2 EXCEPT !.level = newLevel,
                              !.dropInterval = Max2(100, 1000 - (newLevel - 1) * 100)]
              ELSE c2
    IN  spawnPiece(IF n > 0 THEN c3 ELSE c1, index)

moveDown(c, index) ==
    IF isValidMove(c.board, c.currentPosition.x, c.currentPosition.y + 1,
                   c.currentPiece.pattern)
    THEN [c EXCEPT !.currentPosition.y = @ + 1]
    ELSE lockPiece(c, index)

\* the while loop of hardDrop: the lowest valid row below the piece
RECURSIVE dropRow(_, _)
dropRow(c, y) ==
    IF isValidMove(c.board, c.currentPosition.x, y + 1, c.currentPiece.pattern)
    THEN dropRow(c, y + 1)
    ELSE y

hardDrop(c, index) ==
    LET y == dropRow(c, c.currentPosition.y)
        dropDistance == y - c.currentPosition.y
        c1 == [c EXCEPT !.currentPosition.y = y]
        c2 == IF dropDistance > 0 THEN [c1 EXCEPT !.score = @ + dropDistance * 2] ELSE c1
    IN  lockPiece(c2, index)

togglePause(c) == [c EXCEPT !.paused = ~@]

handleKeyDown(c, key, index) ==
    IF c.gameOver \/ c.paused THEN c
    ELSE CASE key = "ArrowLeft" -> moveLeft(c)
           [] key = "ArrowRight" -> moveRight(c)
           [] key = "ArrowDown" -> moveDown(c, index)
           [] key = "ArrowUp" -> rotate(c)
           [] key = " " -> hardDrop(c, index)
           [] key \in {"p", "P"} -> togglePause(c)
           [] OTHER -> c

update(c, deltaTime, index) ==
    IF c.gameOver \/ c.paused THEN c
    ELSE LET c1 == [c EXCEPT !.dropCounter = @ + deltaTime]
         IN  IF c1.dropCounter > c1.dropInterval
             THEN [moveDown(c1, index) EXCEPT !.dropCounter = 0]
             ELSE c1

\* mutant of gameLoop: a paused frame does not move lastTime
gameLoop_pausedKeepsLastTime(w, timestamp, index) ==
    LET handle == FreshHandle(Range(w.pending), w.c.animationFrameId)
        w1 == IF ~w.c.gameOver
              THEN [w EXCEPT !.c.animationFrameId = handle,
                             !.pending = Append(@, handle)]
              ELSE w
    IN  IF w1.c.paused
        THEN [w1 EXCEPT !.calls = <<@[2], [timestamp |-> timestamp, paused |-> TRUE,
                                           deltaTime |-> 0]>>]
        ELSE LET deltaTime == timestamp - w1.c.lastTime
             IN  [w1 EXCEPT !.c = update([w1.c EXCEPT !.lastTime = timestamp],
                                         deltaTime, index),
                            !.calls = <<@[2], [timestamp |-> timestamp, paused |-> FALSE,
                                               deltaTime |-> deltaTime]>>]

\* One run of gameLoop on w = [c: the component, pending: the handles waiting
\* for a frame, calls: the history of gameLoop invocations].
\* render() draws and changes no state.
gameLoop(w, timestamp, index) ==
    LET handle == FreshHandle(Range(w.pending), w.c.animationFrameId)
        w1 == IF ~w.c.gameOver
              THEN [w EXCEPT !.c.animationFrameId = handle,
                             !.pending = Append(@, handle)]
              ELSE w
    IN  IF w1.c.paused
        THEN [w1 EXCEPT !.c.lastTime = timestamp,
                        !.calls = <<@[2], [timestamp |-> timestamp, paused |-> TRUE,
                                           deltaTime |-> 0]>>]
        ELSE LET deltaTime == timestamp - w1.c.lastTime
             IN  [w1 EXCEPT !.c = update([w1.c EXCEPT !.lastTime = timestamp],
                                         deltaTime, index),
                            !.calls = <<@[2], [timestamp |-> timestamp, paused |-> FALSE,
                                               deltaTime |-> deltaTime]>>]

\* first, second: the draws of initGame; index: the draw of a lock in update
restart(w, timestamp, first, second, index) ==
    gameLoop([w EXCEPT !.c = initGame(w.c, first, second)], timestamp, index)

\* cancelAnimationFrame(animationFrameId); a handle of 0 is "none"
ngOnDestroy(w) ==
    IF w.c.animationFrameId # 0
    THEN [w EXCEPT !.pending = Remove(@, w.c.animationFrameId)]
    ELSE w

(***************************************************************************)
(* The falling-piece game as a state machine.                              *)
(***************************************************************************)
\* the field initialisers of ShapeDropComponent
NewShapeDrop ==
    [animationFrameId |-> 0, score |-> 0, lines |-> 0, level |-> 1,
     gameOver |-> FALSE, paused |-> FALSE, board |-> <<>>,
     currentPiece |-> [pattern |-> <<>>, color |-> ""],
     currentPosition |-> [x |-> 0, y |-> 0],
     nextPiece |-> [pattern |-> <<>>, color |-> ""],
     lastTime |-> 0, dropCounter |-> 0, dropInterval |-> 1000]

NoCall == [timestamp |-> -1, paused |-> FALSE, deltaTime |-> 0]

\* ngOnInit with the canvas present: initGame() and gameLoop(0)
ngOnInit(first, second, index) ==
    gameLoop([c |-> initGame(NewShapeDrop, first, second), pending |-> <<>>,
              calls |-> <<NoCall, NoCall>>], 0, index)

DropWorld == [c |-> shapeDrop, pending |-> pending, calls |-> loopCalls]

SetDropWorld(w) ==
    /\ shapeDrop' = w.c
    /\ pending' = w.pending
    /\ loopCalls' = w.calls

\* what an event finds: the piece and the phase flags before it is handled
Before(c) ==
    [x |-> c.currentPosition.x, y |-> c.currentPosition.y,
     paused |-> c.paused, gameOver |-> c.gameOver]

Event(type, key) == [type |-> type, key |-> key, before |-> Before(shapeDrop)]

DropKeys == {"ArrowLeft", "ArrowRight", "ArrowDown", "ArrowUp", " ", "p", "P", "Escape"}

\* createRandomPiece() is reached only from the keys that can lock the piece:
\* for the other keys one value stands for the draw that is never made
DrawsFor(key) == IF key \in {"ArrowDown", " "} THEN PieceDraws ELSE {Min(PieceDraws)}

\* O pieces soft-dropped onto columns 4..5 up to row 2: the next lock in the
\* middle ends the game
TallBoard ==
    [r \in 1..ROWS |-> [k \in 1..COLS |-> IF r - 1 >= 2 /\ k - 1 \in {4, 5} THEN 2 ELSE 0]]

\* the state ngOnInit leaves, at the time the game is mounted
FreshDrop ==
    \E first \in PieceDraws, second \in PieceDraws :
        LET w == ngOnInit(first, second, second)
        IN  /\ shapeDrop = w.c
            /\ pending = w.pending
            /\ loopCalls = w.calls

\* later in the same session: nine O pieces have been soft-dropped, the frame
\* at MountTime locked the ninth and spawned the piece that is falling now
LateDrop ==
    \E first \in PieceDraws, second \in PieceDraws :
        LET w == ngOnInit(first, first, first)
        IN  /\ shapeDrop = [spawnPiece([w.c EXCEPT !.board = TallBoard], second)
                               EXCEPT !.lastTime = MountTime]
            /\ pending = w.pending
            /\ loopCalls = <<[timestamp |-> MountTime - 16, paused |-> FALSE,
                              deltaTime |-> 16],
                             [timestamp |-> MountTime, paused |-> FALSE,
                              deltaTime |-> 16]>>

InitDrop ==
    /\ FreshDrop \/ LateDrop
    /\ NoSnake /\ NoRocks /\ NoArcade /\ hung = FALSE
    /\ now = MountTime
    /\ mounted = TRUE
    /\ lastEvent = [type |-> "ngOnInit", key |-> "", before |-> Before(NewShapeDrop)]
    /\ steps = 0

\* window:keydown reaches handleKeyDown while the component is mounted
KeyDown ==
    /\ mounted
    /\ steps < MaxDropSteps
    /\ \E key \in DropKeys :
         \E index \in DrawsFor(key) :
           /\ shapeDrop' = handleKeyDown(shapeDrop, key, index)
           /\ lastEvent' = Event("keydown", key)
    /\ steps' = steps + 1
    /\ UNCHANGED <<pending, loopCalls, now, mounted, OutsideDrop>>

\* the template's pause button
ClickPause ==
    /\ mounted
    /\ steps < MaxDropSteps
    /\ shapeDrop' = togglePause(shapeDrop)
    /\ lastEvent' = Event("togglePause", "")
    /\ steps' = steps + 1
    /\ UNCHANGED <<pending, loopCalls, now, mounted, OutsideDrop>>

\* the template's restart button: restart() reads performance.now()
ClickRestart ==
    /\ mounted
    /\ steps < MaxDropSteps
    /\ \E d \in ClickDelays, first \in PieceDraws, second \in PieceDraws :
           /\ now' = now + d
           /\ SetDropWorld(restart(DropWorld, now + d, first, second, second))
    /\ lastEvent' = Event("restart", "")
    /\ steps' = steps + 1
    /\ UNCHANGED <<mounted, OutsideDrop>>

\* the callbacks of one animation frame run back to back, oldest first, all
\* with the frame's timestamp; what they request waits for the next frame
RECURSIVE runCallbacks(_, _, _, _)
runCallbacks(w, batch, timestamp, index) ==
    IF batch = <<>> THEN w
    ELSE runCallbacks(gameLoop(w, timestamp, index), Tail(batch), timestamp, index)

AnimationFrame ==
    /\ pending # <<>>
    /\ steps < MaxDropSteps
    /\ \E gap \in FrameGaps, index \in PieceDraws :
           /\ now' = now + gap
           /\ SetDropWorld(runCallbacks([DropWorld EXCEPT !.pending = <<>>],
                                        pending, now + gap, index))
    /\ lastEvent' = Event("frame", "")
    /\ steps' = steps + 1
    /\ UNCHANGED <<mounted, OutsideDrop>>

\* the shell unmounts the game: its HostListeners and buttons are gone
Destroy ==
    /\ mounted
    /\ steps < MaxDropSteps
    /\ SetDropWorld(ngOnDestroy(DropWorld))
    /\ mounted' = FALSE
    /\ lastEvent' = Event("ngOnDestroy", "")
    /\ steps' = steps + 1
    /\ UNCHANGED <<now, OutsideDrop>>

NextDrop == KeyDown \/ ClickPause \/ ClickRestart \/ AnimationFrame \/ Destroy

SpecDrop == InitDrop /\ [][NextDrop]_vars

(***************************************************************************)
(* The falling piece under key presses alone, on boards of a session in    *)
(* which O pieces were soft-dropped (no score, no line): every placement   *)
(* the keys can reach from the spawn position, up to the first lock.       *)
(***************************************************************************)
\* O pieces stacked on columns 0..7 up to row 4: a well on columns 8 and 9
WellBoard ==
    [r \in 1..ROWS |-> [k \in 1..COLS |-> IF r - 1 >= 4 /\ k - 1 <= 7 THEN 2 ELSE 0]]

StartBoards == {EmptyBoard, WellBoard}

InitPiece ==
    /\ \E board \in StartBoards, shape \in DOMAIN SHAPES, index \in PieceDraws :
           shapeDrop = spawnPiece([initGame(NewShapeDrop, shape, shape) EXCEPT
                                       !.board = board,
                                       !.nextPiece = createRandomPiece(shape),
                                       !.animationFrameId = 1],
                                  index)
    /\ pending = <<1>>
    /\ loopCalls = <<NoCall, NoCall>>
    /\ NoSnake /\ NoRocks /\ NoArcade /\ hung = FALSE
    /\ now = MountTime
    /\ mounted = TRUE
    /\ lastEvent = [type |-> "spawn", key |-> "", before |-> Before(NewShapeDrop)]
    /\ steps = 0

\* window:keydown, for as long as the first piece has not been locked
PieceKey ==
    /\ mounted
    /\ shapeDrop.board \in StartBoards
    /\ \E key \in DropKeys :
         \E index \in DrawsFor(key) :
           /\ shapeDrop' = handleKeyDown(shapeDrop, key, index)
           /\ lastEvent' = Event("keydown", key)
    /\ UNCHANGED <<pending, loopCalls, now, mounted, steps, OutsideDrop>>

NextPiece == PieceKey

SpecPiece == InitPiece /\ [][NextPiece]_vars

(***************************************************************************)
(* The snake game: src/src/app/snake-game/snake-game.component.ts          *)
(* Methods that set or clear the timer or write the stored high score work *)
(* on w = [c: the component, intervals, localStorage, hung: a loop of the  *)
(* handler does not end].                                                  *)
(***************************************************************************)
GRID_SIZE == 20
INITIAL_SPEED == 150
SPEED_INCREMENT == 5
MIN_SPEED == 50

\* localStorage.getItem returns null for an item that was never set
NoItem == "null"

\* Number.prototype.toString: the decimal digits of n >= 0, as a sequence
RECURSIVE toString(_)
toString(n) == IF n < 10 THEN <<n>> ELSE Append(toString(n \div 10), n % 10)

\* parseInt(saved, 10) of a string of decimal digits
RECURSIVE parseInt(_)
parseInt(saved) ==
    IF Len(saved) = 1 THEN saved[1]
    ELSE 10 * parseInt(SubSeq(saved, 1, Len(saved) - 1)) + saved[Len(saved)]

\* the field initialisers of SnakeGameComponent
NewSnakeGame ==
    [gameState |-> "READY", score |-> 0, highScore |-> 0,
     gridWidth |-> 0, gridHeight |-> 0, cols |-> 0, rows |-> 0,
     snake |-> <<>>, direction |-> "RIGHT", nextDirection |-> "RIGHT",
     apple |-> [x |-> 0, y |-> 0], gameLoop |-> 0, currentSpeed |-> INITIAL_SPEED]

loadHighScore(c, saved) ==
    IF saved # NoItem /\ saved # <<>>
    THEN [c EXCEPT !.highScore = parseInt(saved)]
    ELSE c

calculateGridDimensions(c, window) ==
    LET cols == window.innerWidth \div GRID_SIZE
        rows == window.innerHeight \div GRID_SIZE
    IN  [c EXCEPT !.cols = cols, !.rows = rows,
                  !.gridWidth = cols * GRID_SIZE, !.gridHeight = rows * GRID_SIZE]

\* this.snake.some(segment => segment.x === p.x && segment.y === p.y)
OnSnake(c, p) == \E i \in DOMAIN c.snake : c.snake[i].x = p.x /\ c.snake[i].y = p.y

\* the cells of the grid the do-while loop of spawnApple can leave with
FreeCells(c) ==
    {p \in [x : 0..(c.cols - 1), y : 0..(c.rows - 1)] : ~OnSnake(c, p)}

\* draw stands for the random draws of the loop: the loop ends with the cell
\* that has draw % n free cells before it in row order, n the number of free
\* cells; with no free cell it never ends
spawnApple(w, draw) ==
    LET free == FreeCells(w.c)
        Rank(p) == Cardinality({q \in free : q.y * w.c.cols + q.x < p.y * w.c.cols + p.x})
    IN  IF free = {} THEN [w EXCEPT !.hung = TRUE]
        ELSE [w EXCEPT !.c.apple =
                  CHOOSE p \in free : Rank(p) = draw % Cardinality(free)]

initGameSnake(w, draw) ==
    LET centerX == w.c.cols \div 2
        centerY == w.c.rows \div 2
        w1 == [w EXCEPT !.c.snake = << [x |-> centerX, y |-> centerY],
                                       [x |-> centerX - 1, y |-> centerY],
                                       [x |-> centerX - 2, y |-> centerY] >>,
                        !.c.direction = "RIGHT",
                        !.c.nextDirection = "RIGHT",
                        !.c.currentSpeed = INITIAL_SPEED,
                        !.c.score = 0]
        w2 == spawnApple(w1, draw)
    IN  IF w2.hung THEN w2 ELSE [w2 EXCEPT !.c.gameState = "READY"]

\* this.gameLoop = window.setInterval(() => this.update(), this.currentSpeed)
setInterval(w) ==
    LET id == FreshHandle({t.id : t \in w.intervals}, w.c.gameLoop)
    IN  [w EXCEPT !.intervals = @ \cup {[id |-> id, delay |-> w.c.currentSpeed]},
                  !.c.gameLoop = id]

startGame(w) == setInterval([w EXCEPT !.c.gameState = "PLAYING"])

\* a stopGame that forgets the handle without clearing its timer
stopGame_keepsTimer(w) == [w EXCEPT !.c.gameLoop = 0]

stopGame(w) ==
    IF w.c.gameLoop # 0
    THEN [w EXCEPT !.intervals = {t \in @ : t.id # w.c.gameLoop}, !.c.gameLoop = 0]
    ELSE w

pauseGame(w) ==
    IF w.c.gameState = "PLAYING"
    THEN [stopGame(w) EXCEPT !.c.gameState = "PAUSED"]
    ELSE w

resumeGame(w) ==
    IF w.c.gameState = "PAUSED"
    THEN setInterval([w EXCEPT !.c.gameState = "PLAYING"])
    ELSE w

restartGame(w, draw) ==
    LET w1 == initGameSnake(stopGame(w), draw)
    IN  IF w1.hung THEN w1 ELSE startGame(w1)

\* mutant of endGame: every final score becomes the high score and is saved
endGame_savesEveryScore(w) ==
    LET w1 == [stopGame(w) EXCEPT !.c.gameState = "GAME_OVER"]
    IN  [w1 EXCEPT !.c.highScore = w1.c.score,
                   !.localStorage = toString(w1.c.score)]

endGame(w) ==
    LET w1 == [stopGame(w) EXCEPT !.c.gameState = "GAME_OVER"]
    IN  IF w1.c.score > w1.c.highScore
        THEN [w1 EXCEPT !.c.highScore = w1.c.score,
                        !.localStorage = toString(w1.c.score)]
        ELSE w1

\* mutant of updateSnake: the timer is not set again after an apple
updateSnake_keepsInterval(w, draw) ==
    LET direction == w.c.nextDirection
        head == w.c.snake[1]
        newHead == CASE direction = "UP" -> [x |-> head.x, y |-> head.y - 1]
                     [] direction = "DOWN" -> [x |-> head.x, y |-> head.y + 1]
                     [] direction = "LEFT" -> [x |-> head.x - 1, y |-> head.y]
                     [] direction = "RIGHT" -> [x |-> head.x + 1, y |-> head.y]
        w1 == [w EXCEPT !.c.direction = direction]
        grown == [w1 EXCEPT !.c.snake = <<newHead>> \o @]
        fed == spawnApple([grown EXCEPT !.c.score = @ + 10], draw)
        faster == [fed EXCEPT !.c.currentSpeed = Max2(MIN_SPEED, @ - SPEED_INCREMENT)]
    IN  IF newHead.x < 0 \/ newHead.x >= w.c.cols \/ newHead.y < 0 \/ newHead.y >= w.c.rows
        THEN endGame(w1)
        ELSE IF OnSnake(w1.c, newHead)
        THEN endGame(w1)
        ELSE IF newHead.x = w.c.apple.x /\ newHead.y = w.c.apple.y
        THEN IF fed.hung THEN fed
             ELSE IF fed.c.currentSpeed > MIN_SPEED
             THEN faster
             ELSE fed
        ELSE [grown EXCEPT !.c.snake = SubSeq(@, 1, Len(@) - 1)]

updateSnake(w, draw) ==
    LET direction == w.c.nextDirection
        head == w.c.snake[1]
        newHead == CASE direction = "UP" -> [x |-> head.x, y |-> head.y - 1]
                     [] direction = "DOWN" -> [x |-> head.x, y |-> head.y + 1]
                     [] direction = "LEFT" -> [x |-> head.x - 1, y |-> head.y]
                     [] direction = "RIGHT" -> [x |-> head.x + 1, y |-> head.y]
        w1 == [w EXCEPT !.c.direction = direction]
        grown == [w1 EXCEPT !.c.snake = <<newHead>> \o @]
        fed == spawnApple([grown EXCEPT !.c.score = @ + 10], draw)
        faster == [fed EXCEPT !.c.currentSpeed = Max2(MIN_SPEED, @ - SPEED_INCREMENT)]
    IN  IF newHead.x < 0 \/ newHead.x >= w.c.cols \/ newHead.y < 0 \/ newHead.y >= w.c.rows
        THEN endGame(w1)
        ELSE IF OnSnake(w1.c, newHead)
        THEN endGame(w1)
        ELSE IF newHead.x = w.c.apple.x /\ newHead.y = w.c.apple.y
        THEN IF fed.hung THEN fed
             ELSE IF fed.c.currentSpeed > MIN_SPEED
             THEN setInterval(stopGame(faster))
             ELSE fed
        ELSE [grown EXCEPT !.c.snake = SubSeq(@, 1, Len(@) - 1)]

\* mutant of onKeyDown: a direction key is tested against nextDirection
onKeyDown_testsNextDirection(w, key, draw) ==
    LET state == w.c.gameState
    IN  IF state = "READY" /\ key \in {" ", "Enter"} THEN startGame(w)
        ELSE IF state = "PLAYING"
        THEN CASE key \in {"ArrowUp", "w", "W"} ->
                      IF w.c.nextDirection # "DOWN" THEN [w EXCEPT !.c.nextDirection = "UP"] ELSE w
               [] key \in {"ArrowDown", "s", "S"} ->
                      IF w.c.nextDirection # "UP" THEN [w EXCEPT !.c.nextDirection = "DOWN"] ELSE w
               [] key \in {"ArrowLeft", "a", "A"} ->
                      IF w.c.nextDirection # "RIGHT" THEN [w EXCEPT !.c.nextDirection = "LEFT"]
                      ELSE w
               [] key \in {"ArrowRight", "d", "D"} ->
                      IF w.c.nextDirection # "LEFT" THEN [w EXCEPT !.c.nextDirection = "RIGHT"]
                      ELSE w
               [] key \in {" ", "p", "P"} -> pauseGame(w)
               [] OTHER -> w
        ELSE IF state = "PAUSED"
        THEN IF key \in {" ", "p", "P"} THEN resumeGame(w) ELSE w
        ELSE IF state = "GAME_OVER"
        THEN IF key \in {" ", "Enter"} THEN restartGame(w, draw) ELSE w
        ELSE w

onKeyDown(w, key, draw) ==
    LET state == w.c.gameState
    IN  IF state = "READY" /\ key \in {" ", "Enter"} THEN startGame(w)
        ELSE IF state = "PLAYING"
        THEN CASE key \in {"ArrowUp", "w", "W"} ->
                      IF w.c.direction # "DOWN" THEN [w EXCEPT !.c.nextDirection = "UP"] ELSE w
               [] key \in {"ArrowDown", "s", "S"} ->
                      IF w.c.direction # "UP" THEN [w EXCEPT !.c.nextDirection = "DOWN"] ELSE w
               [] key \in {"ArrowLeft", "a", "A"} ->
                      IF w.c.direction # "RIGHT" THEN [w EXCEPT !.c.nextDirection = "LEFT"]
                      ELSE w
               [] key \in {"ArrowRight", "d", "D"} ->
                      IF w.c.direction # "LEFT" THEN [w EXCEPT !.c.nextDirection = "RIGHT"]
                      ELSE w
               [] key \in {" ", "p", "P"} -> pauseGame(w)
               [] OTHER -> w
        ELSE IF state = "PAUSED"
        THEN IF key \in {" ", "p", "P"} THEN resumeGame(w) ELSE w
        ELSE IF state = "GAME_OVER"
        THEN IF key \in {" ", "Enter"} THEN restartGame(w, draw) ELSE w
        ELSE w

\* an onResize that pauses a running game and leaves it paused
onResize_staysPaused(w, window) ==
    [pauseGame(w) EXCEPT !.c = calculateGridDimensions(@, window)]

onResize(w, window) ==
    LET wasPlaying == w.c.gameState = "PLAYING"
        w1 == IF wasPlaying THEN pauseGame(w) ELSE w
        w2 == [w1 EXCEPT !.c = calculateGridDimensions(@, window)]
    IN  IF wasPlaying THEN resumeGame(w2) ELSE w2

\* the constructor, then ngOnInit
ngOnInitSnake(saved, window, draw) ==
    initGameSnake([c |-> calculateGridDimensions(loadHighScore(NewSnakeGame, saved), window),
                   intervals |-> {}, localStorage |-> saved, hung |-> FALSE], draw)

ngOnDestroySnake(w) == stopGame(w)

(***************************************************************************)
(* The snake game as a state machine: key presses, window resizes, ticks   *)
(* of the interval timers and the destruction of the component.            *)
(***************************************************************************)
SnakeWorld ==
    [c |-> snakeGame, intervals |-> intervals, localStorage |-> localStorage,
     hung |-> hung]

SetSnakeWorld(w) ==
    /\ snakeGame' = w.c
    /\ intervals' = w.intervals
    /\ localStorage' = w.localStorage
    /\ hung' = w.hung

SetSnakeNow(w) ==
    /\ snakeGame = w.c
    /\ intervals = w.intervals
    /\ localStorage = w.localStorage
    /\ hung = w.hung

SnakeEvent(type, key) == [type |-> type, key |-> key, before |-> snakeGame.gameState]

SnakeKeys ==
    {" ", "Enter", "p", "P", "ArrowUp", "ArrowDown", "ArrowLeft", "ArrowRight",
     "w", "a", "s", "d", "Escape"}

\* the sizes the window takes: grids of 4 x 3 and 5 x 3 cells
Windows == {[innerWidth |-> 90, innerHeight |-> 70], [innerWidth |-> 110, innerHeight |-> 70]}

\* the stored high score when the page opens: none, or "20"
SavedScores == {NoItem, <<2, 0>>}

\* the draws of spawnApple: one per cell of the largest grid
AppleDraws == 0..14

\* the state ngOnInit leaves when the page opens
FreshSnake ==
    \E window \in Windows, saved \in SavedScores, draw \in AppleDraws :
        /\ viewport = window
        /\ SetSnakeNow(ngOnInitSnake(saved, window, draw))
        /\ lastEvent = [type |-> "ngOnInit", key |-> "", before |-> "READY"]

\* a game on the 5 x 3 grid in which the snake ate the two apples ahead of
\* it and turned up: the start key, three ticks and one direction key after
\* ngOnInit, with the apples drawn on the snake's row
LateSnakeWorld ==
    LET window == [innerWidth |-> 110, innerHeight |-> 70]
        w0 == ngOnInitSnake(NoItem, window, 5)
        w1 == onKeyDown(w0, " ", 0)
        w2 == updateSnake(w1, 5)
        w3 == updateSnake(w2, 9)
        w4 == onKeyDown(w3, "ArrowUp", 0)
    IN  updateSnake(w4, 0)

LateSnake ==
    /\ viewport = [innerWidth |-> 110, innerHeight |-> 70]
    /\ SetSnakeNow(LateSnakeWorld)
    /\ lastEvent = [type |-> "tick", key |-> "", before |-> "PLAYING"]

InitSnake ==
    /\ FreshSnake \/ LateSnake
    /\ NoDrop /\ NoRocks /\ NoArcade /\ pending = <<>>
    /\ now = MountTime
    /\ mounted = TRUE
    /\ steps = 0

\* window:keydown reaches onKeyDown while the component is mounted
SnakeKeyDown ==
    /\ mounted /\ ~hung
    /\ steps < MaxSnakeSteps
    /\ \E key \in SnakeKeys :
        /\ \E draw \in IF snakeGame.gameState = "GAME_OVER" /\ key \in {" ", "Enter"}
                       THEN AppleDraws ELSE {0} :
              SetSnakeWorld(onKeyDown(SnakeWorld, key, draw))
        /\ lastEvent' = SnakeEvent("keydown", key)
    /\ steps' = steps + 1
    /\ UNCHANGED <<viewport, now, mounted, OutsideSnake>>

\* window:resize reaches onResize while the component is mounted
SnakeResize ==
    /\ mounted /\ ~hung
    /\ steps < MaxSnakeSteps
    /\ \E window \in Windows \ {viewport} :
        /\ viewport' = window
        /\ SetSnakeWorld(onResize(SnakeWorld, window))
    /\ lastEvent' = SnakeEvent("resize", "")
    /\ steps' = steps + 1
    /\ UNCHANGED <<now, mounted, OutsideSnake>>

\* an active interval timer fires: its callback is () => this.update()
SnakeTick ==
    /\ ~hung
    /\ steps < MaxSnakeSteps
    /\ \E t \in intervals :
        LET head == snakeGame.snake[1]
            eats == \E d \in {-1, 1} :
                        \/ snakeGame.apple = [x |-> head.x + d, y |-> head.y]
                        \/ snakeGame.apple = [x |-> head.x, y |-> head.y + d]
        IN  \E draw \in IF eats THEN AppleDraws ELSE {0} :
                SetSnakeWorld(updateSnake(SnakeWorld, draw))
    /\ lastEvent' = SnakeEvent("tick", "")
    /\ steps' = steps + 1
    /\ UNCHANGED <<viewport, now, mounted, OutsideSnake>>

SnakeDestroy ==
    /\ mounted /\ ~hung
    /\ steps < MaxSnakeSteps
    /\ SetSnakeWorld(ngOnDestroySnake(SnakeWorld))
    /\ mounted' = FALSE
    /\ lastEvent' = SnakeEvent("ngOnDestroy", "")
    /\ steps' = steps + 1
    /\ UNCHANGED <<viewport, now, OutsideSnake>>

NextSnake == SnakeKeyDown \/ SnakeResize \/ SnakeTick \/ SnakeDestroy

SpecSnake == InitSnake /\ [][NextSnake]_vars

(***************************************************************************)
(* The asteroid game: SpaceRocksGameComponent of                           *)
(* src/src/app/home/home.component.ts                                      *)
(* Lengths and speeds are kept in hundredths of a pixel, angles in         *)
(* thousandths of a radian, Math.sin and Math.cos in thousandths; the      *)
(* outcomes of Math.random() reach the methods as draws.  The outline      *)
(* points of an asteroid, the audio and the canvas drawing act on nothing  *)
(* the game reads and are left out.                                        *)
(***************************************************************************)
SHIP_SIZE == 15
SHIP_THRUST == 15
SHIP_TURN_SPEED == 80
FRICTION == 98
BULLET_SPEED == 7
BULLET_LIFE == 60
SHOT_DELAY == 250

\* n pixels, in hundredths of a pixel
Px(n) == n * 100

\* Math.PI and 2 * Math.PI in thousandths of a radian
PI == 3142
TwoPI == 6283

\* Math.sin in thousandths (Bhaskara's rational approximation on a half turn)
Sin(angle) ==
    LET x == angle % TwoPI
        Arch(y) == LET p == (y * (PI - y)) \div 1000
                   IN  (16000 * p) \div (49348 - 4 * p)
    IN  IF x <= PI THEN Arch(x) ELSE -Arch(x - PI)

Cos(angle) == Sin(angle + 1571)

\* a product of two numbers one of which is in hundredths or thousandths,
\* rounded towards zero
Times(a, b, unit) ==
    IF a * b >= 0 THEN (a * b) \div unit ELSE -((-(a * b)) \div unit)

Abs(n) == IF n < 0 THEN -n ELSE n

\* Math.hypot(p.x - q.x, p.y - q.y) < r, r in hundredths of a pixel
Within(p, q, r) ==
    LET dx == p.x - q.x
        dy == p.y - q.y
    IN  Abs(dx) < r /\ Abs(dy) < r /\ dx * dx + dy * dy < r * r

radiusMap == [large |-> 40, medium |-> 25, small |-> 15]
speedMap == [large |-> 100, medium |-> 150, small |-> 200]
\* mutant of scoreMap: the large asteroid is the highest tier
scoreMap_largeHighest == [large |-> 100, medium |-> 50, small |-> 20]

scoreMap == [large |-> 20, medium |-> 50, small |-> 100]

\* draw: angle = Math.random() * 2 PI, factor = 100 * (0.5 + Math.random() * 0.5),
\* rotation = 1000 * (Math.random() - 0.5) * 0.05
createAsteroid(pos, size, draw) ==
    LET speed == Times(speedMap[size], draw.factor, 100)
    IN  [pos |-> pos,
         vel |-> [x |-> Times(Cos(draw.angle), speed, 1000),
                  y |-> Times(Sin(draw.angle), speed, 1000)],
         angle |-> 0,
         rotationSpeed |-> draw.rotation,
         radius |-> radiusMap[size],
         size |-> size]

\* the place a spawn draw stands for: fx, fy are Math.random() in hundredths
SpawnPos(canvas, spawn) ==
    [x |-> (Px(canvas.width) * spawn.fx) \div 100,
     y |-> (Px(canvas.height) * spawn.fy) \div 100]

\* the do-while loop of createAsteroids for asteroid i: it draws the spawns
\* from the i-th on, round and round, and ends at the first that is 150 px
\* or more from the ship; it never ends when none is
RECURSIVE createAsteroidsFrom(_, _, _, _)
createAsteroidsFrom(w, i, count, spawns) ==
    IF i >= count THEN w
    ELSE LET n == Len(spawns)
             far == {k \in 0..(n - 1) :
                        ~Within(SpawnPos(w.c.canvas, spawns[((i + k) % n) + 1]),
                                w.c.ship.pos, Px(150))}
         IN  IF far = {} THEN [w EXCEPT !.hung = TRUE]
             ELSE LET spawn == spawns[((i + Min(far)) % n) + 1]
                      rock == createAsteroid(SpawnPos(w.c.canvas, spawn), "large", spawn)
                  IN  Then([w EXCEPT !.c.asteroids = Append(@, rock)],
                           LAMBDA v : createAsteroidsFrom(v, i + 1, count, spawns))

createAsteroids(w, count, spawns) ==
    Then(w, LAMBDA v : createAsteroidsFrom(v, 0, count, spawns))

\* the field initialisers of SpaceRocksGameComponent, with the canvas of the view
NewSpaceRocks ==
    [canvas |-> [width |-> 0, height |-> 0],
     animationFrameId |-> 0, keys |-> {},
     ship |-> [pos |-> [x |-> 0, y |-> 0], vel |-> [x |-> 0, y |-> 0],
               angle |-> 0, thrust |-> FALSE, radius |-> 0],
     asteroids |-> <<>>, bullets |-> <<>>, particles |-> <<>>,
     gameOver |-> FALSE, paused |-> FALSE, lastShot |-> 0,
     score |-> 0, lives |-> 3, level |-> 1, gameOverState |-> FALSE]

resizeCanvas(c, window) ==
    [c EXCEPT !.canvas = [width |-> window.innerWidth, height |-> window.innerHeight]]

initGameRocks(w, draws) ==
    LET c == w.c
        c1 == [c EXCEPT !.ship = [pos |-> [x |-> Px(c.canvas.width) \div 2,
                                            y |-> Px(c.canvas.height) \div 2],
                                   vel |-> [x |-> 0, y |-> 0],
                                   angle |-> -1571,
                                   thrust |-> FALSE,
                                   radius |-> SHIP_SIZE],
                        !.asteroids = <<>>, !.bullets = <<>>, !.particles = <<>>,
                        !.gameOver = FALSE, !.score = 0, !.lives = 3, !.level = 1,
                        !.gameOverState = FALSE]
    IN  createAsteroids([w EXCEPT !.c = c1], 4, draws.spawns)

shoot(w) ==
    LET c == w.c
        bullet == [pos |-> [x |-> c.ship.pos.x + Times(Cos(c.ship.angle), Px(c.ship.radius), 1000),
                            y |-> c.ship.pos.y + Times(Sin(c.ship.angle), Px(c.ship.radius), 1000)],
                   vel |-> [x |-> Times(Cos(c.ship.angle), Px(BULLET_SPEED), 1000) + c.ship.vel.x,
                            y |-> Times(Sin(c.ship.angle), Px(BULLET_SPEED), 1000) + c.ship.vel.y],
                   life |-> BULLET_LIFE]
    IN  IF c.gameOver \/ c.paused THEN w
        ELSE IF w.now - c.lastShot < SHOT_DELAY THEN w
        ELSE [w EXCEPT !.c.lastShot = w.now, !.c.bullets = Append(@, bullet)]

\* e.key.toLowerCase() on the keys delivered
toLowerCase(key) ==
    CASE key = "P" -> "p"
      [] key = "R" -> "r"
      [] key = "ArrowLeft" -> "arrowleft"
      [] key = "ArrowRight" -> "arrowright"
      [] key = "ArrowUp" -> "arrowup"
      [] key = "Escape" -> "escape"
      [] OTHER -> key

\* keys holds the names whose entry of this.keys is true; exitGame.emit()
\* on Escape changes no field of the component
handleKeyDownRocks(w, key, draws) ==
    Then(IF key = " " \/ key = "Spacebar"
         THEN shoot([w EXCEPT !.c.keys = @ \cup {toLowerCase(key)}])
         ELSE [w EXCEPT !.c.keys = @ \cup {toLowerCase(key)}],
         LAMBDA w2 :
    Then(IF toLowerCase(key) = "r" /\ w2.c.gameOver THEN initGameRocks(w2, draws) ELSE w2,
         LAMBDA w3 :
            IF toLowerCase(key) = "p" /\ ~w3.hung
            THEN [w3 EXCEPT !.c.paused = ~@]
            ELSE w3))

handleKeyUp(c, key) == [c EXCEPT !.keys = @ \ {toLowerCase(key)}]

handleResize(c, window) == resizeCanvas(c, window)

wrapPosition(pos, width, height) ==
    LET x1 == IF pos.x < 0 THEN width ELSE pos.x
        x2 == IF x1 > width THEN 0 ELSE x1
        y1 == IF pos.y < 0 THEN height ELSE pos.y
        y2 == IF y1 > height THEN 0 ELSE y1
    IN  [x |-> x2, y |-> y2]

\* mutant of updateShip: the ship thrusts whether or not a thrust key is down
updateShip_thrustsUnasked(c) ==
    LET left == "arrowleft" \in c.keys \/ "a" \in c.keys
        right == "arrowright" \in c.keys \/ "d" \in c.keys
        angle == c.ship.angle - (IF left THEN SHIP_TURN_SPEED ELSE 0)
                              + (IF right THEN SHIP_TURN_SPEED ELSE 0)
        thrust == TRUE
        pushed == IF thrust
                  THEN [x |-> c.ship.vel.x + Times(Cos(angle), SHIP_THRUST, 1000),
                        y |-> c.ship.vel.y + Times(Sin(angle), SHIP_THRUST, 1000)]
                  ELSE c.ship.vel
        vel == [x |-> Times(pushed.x, FRICTION, 100), y |-> Times(pushed.y, FRICTION, 100)]
        pos == [x |-> c.ship.pos.x + vel.x, y |-> c.ship.pos.y + vel.y]
    IN  [c EXCEPT !.ship.angle = angle, !.ship.thrust = thrust, !.ship.vel = vel,
                  !.ship.pos = wrapPosition(pos, Px(c.canvas.width), Px(c.canvas.height))]

updateShip(c) ==
    LET left == "arrowleft" \in c.keys \/ "a" \in c.keys
        right == "arrowright" \in c.keys \/ "d" \in c.keys
        angle == c.ship.angle - (IF left THEN SHIP_TURN_SPEED ELSE 0)
                              + (IF right THEN SHIP_TURN_SPEED ELSE 0)
        thrust == "arrowup" \in c.keys \/ "w" \in c.keys
        pushed == IF thrust
                  THEN [x |-> c.ship.vel.x + Times(Cos(angle), SHIP_THRUST, 1000),
                        y |-> c.ship.vel.y + Times(Sin(angle), SHIP_THRUST, 1000)]
                  ELSE c.ship.vel
        vel == [x |-> Times(pushed.x, FRICTION, 100), y |-> Times(pushed.y, FRICTION, 100)]
        pos == [x |-> c.ship.pos.x + vel.x, y |-> c.ship.pos.y + vel.y]
    IN  [c EXCEPT !.ship.angle = angle, !.ship.thrust = thrust, !.ship.vel = vel,
                  !.ship.pos = wrapPosition(pos, Px(c.canvas.width), Px(c.canvas.height))]

updateBullets(c) ==
    LET moved == [i \in DOMAIN c.bullets |->
                    LET bullet == c.bullets[i]
                    IN  [bullet EXCEPT
                           !.pos = wrapPosition([x |-> bullet.pos.x + bullet.vel.x,
                                                 y |-> bullet.pos.y + bullet.vel.y],
                                                Px(c.canvas.width), Px(c.canvas.height)),
                           !.life = @ - 1]]
    IN  [c EXCEPT !.bullets = SelectSeq(moved, LAMBDA bullet : bullet.life > 0)]

updateAsteroids(c) ==
    [c EXCEPT !.asteroids =
        [i \in DOMAIN c.asteroids |->
            LET asteroid == c.asteroids[i]
            IN  [asteroid EXCEPT
                   !.pos = wrapPosition([x |-> asteroid.pos.x + asteroid.vel.x,
                                         y |-> asteroid.pos.y + asteroid.vel.y],
                                        Px(c.canvas.width), Px(c.canvas.height)),
                   !.angle = @ + asteroid.rotationSpeed]]]

updateParticles(c) ==
    LET moved == [i \in DOMAIN c.particles |->
                    LET particle == c.particles[i]
                    IN  [particle EXCEPT
                           !.pos = [x |-> particle.pos.x + particle.vel.x,
                                    y |-> particle.pos.y + particle.vel.y],
                           !.vel = [x |-> Times(particle.vel.x, 98, 100),
                                    y |-> Times(particle.vel.y, 98, 100)],
                           !.life = @ - 1]]
    IN  [c EXCEPT !.particles = SelectSeq(moved, LAMBDA particle : particle.life > 0)]

checkCircleCollision(pos1, r1, pos2, r2) == Within(pos1, pos2, Px(r1 + r2))

\* speed = 100 * (2 + Math.random() * 2), drawn once for the whole explosion
createExplosion(c, pos, count, speed) ==
    [c EXCEPT !.particles = @ \o
        [k \in 1..count |->
            LET angle == (TwoPI * (k - 1)) \div count
            IN  [pos |-> pos,
                 vel |-> [x |-> Times(Cos(angle), speed, 1000),
                          y |-> Times(Sin(angle), speed, 1000)],
                 life |-> 30, maxLife |-> 30]]]

\* a split that also breaks a small asteroid in two
Pieces_ofEverySize(asteroid, draws) ==
    [i \in 1..2 |-> createAsteroid(asteroid.pos,
                                   IF asteroid.size = "large" THEN "medium" ELSE "small",
                                   draws.kids[i])]

\* the pieces destroyAsteroid pushes for an asteroid of a size
Pieces(asteroid, draws) ==
    IF asteroid.size = "large"
    THEN [i \in 1..2 |-> createAsteroid(asteroid.pos, "medium", draws.kids[i])]
    ELSE IF asteroid.size = "medium"
    THEN [i \in 1..2 |-> createAsteroid(asteroid.pos, "small", draws.kids[i])]
    ELSE <<>>

\* this.asteroids.splice(index, 1), index counted from 1
Splice(q, index) == SubSeq(q, 1, index - 1) \o SubSeq(q, index + 1, Len(q))

\* index counts from 1; w.destroyed is the history of the calls of one handler:
\* scored is what the call added to the score and by names the bullet, when
\* a bullet was the cause
destroyAsteroid(w, index, draws) ==
    LET asteroid == w.c.asteroids[index]
        c1 == [w.c EXCEPT !.score = @ + scoreMap[asteroid.size]]
        c2 == createExplosion(c1, asteroid.pos, 8, draws.speed)
        c3 == [c2 EXCEPT !.asteroids = @ \o Pieces(asteroid, draws)]
    IN  Then([c3 EXCEPT !.asteroids = Splice(@, index)], LAMBDA c4 :
             [w EXCEPT !.c = c4,
                       !.destroyed = Append(@, [index |-> index,
                                                before |-> w.c.asteroids,
                                                after |-> c4.asteroids,
                                                scored |-> c4.score - w.c.score,
                                                by |-> <<>>])])

destroyShip(c, draws) ==
    LET c1 == createExplosion(c, c.ship.pos, 20, draws.speed)
        c2 == [c1 EXCEPT !.lives = @ - 1]
    IN  IF c2.lives <= 0
        THEN [c2 EXCEPT !.gameOver = TRUE, !.gameOverState = TRUE]
        ELSE [c2 EXCEPT !.ship.pos = [x |-> Px(c.canvas.width) \div 2,
                                      y |-> Px(c.canvas.height) \div 2],
                        !.ship.vel = [x |-> 0, y |-> 0],
                        !.ship.angle = -1571]

\* the outer loop of the bullet-asteroid check, at bullet i (counted from 1):
\* the inner loop runs from the last asteroid down and stops at the first hit
RECURSIVE bulletsFrom(_, _, _)
bulletsFrom(w, i, draws) ==
    IF i < 1 THEN w
    ELSE LET bullet == w.c.bullets[i]
             hits == {j \in DOMAIN w.c.asteroids :
                         checkCircleCollision(bullet.pos, 2, w.c.asteroids[j].pos,
                                              w.c.asteroids[j].radius)}
         IN  IF hits = {} THEN bulletsFrom(w, i - 1, draws)
             ELSE Then(destroyAsteroid(w, -Min({-j : j \in hits}), draws), LAMBDA w1 :
                  Then([w1 EXCEPT !.c.bullets = Splice(@, i),
                                  !.destroyed[Len(w1.destroyed)].by =
                                      <<[index |-> i, bullet |-> bullet]>>],
                       LAMBDA w2 : bulletsFrom(w2, i - 1, draws)))

checkCollisions(w, draws) ==
    Then(bulletsFrom(w, Len(w.c.bullets), draws), LAMBDA w1 :
        LET hits == {i \in DOMAIN w1.c.asteroids :
                        checkCircleCollision(w1.c.ship.pos, w1.c.ship.radius,
                                             w1.c.asteroids[i].pos, w1.c.asteroids[i].radius)}
        IN  IF hits = {} THEN w1
            ELSE Then([w1 EXCEPT !.c = destroyShip(@, draws)], LAMBDA w2 :
                      destroyAsteroid(w2, -Min({-i : i \in hits}), draws)))

updateRocks(w, draws) ==
    Then(updateShip(w.c), LAMBDA c1 :
    Then(updateBullets(c1), LAMBDA c2 :
    Then(updateAsteroids(c2), LAMBDA c3 :
    Then(updateParticles(c3), LAMBDA c4 :
    Then(checkCollisions([w EXCEPT !.c = c4], draws), LAMBDA w1 :
        IF w1.c.asteroids = <<>> /\ ~w1.c.gameOver
        THEN createAsteroids([w1 EXCEPT !.c.level = @ + 1], 4 + (w1.c.level + 1),
                             draws.spawns)
        ELSE w1)))))

\* a gameLoop that runs update whatever paused says
gameLoopRocks_ignoresPaused(w, draws) ==
    Then(IF ~w.c.gameOver THEN updateRocks(w, draws) ELSE w, LAMBDA w1 :
        LET handle == FreshHandle(Range(w1.pending), w1.c.animationFrameId)
        IN  IF w1.hung THEN w1
            ELSE [w1 EXCEPT !.c.animationFrameId = handle, !.pending = Append(@, handle)])

gameLoopRocks(w, draws) ==
    Then(IF ~w.c.paused /\ ~w.c.gameOver THEN updateRocks(w, draws) ELSE w, LAMBDA w1 :
        LET handle == FreshHandle(Range(w1.pending), w1.c.animationFrameId)
        IN  IF w1.hung THEN w1
            ELSE [w1 EXCEPT !.c.animationFrameId = handle, !.pending = Append(@, handle)])

ngOnInitRocks(window, time, draws) ==
    Then([c |-> resizeCanvas(NewSpaceRocks, window), pending |-> <<>>,
          now |-> time, hung |-> FALSE, destroyed |-> <<>>], LAMBDA w0 :
    Then(initGameRocks(w0, draws), LAMBDA w1 :
        IF w1.hung THEN w1 ELSE gameLoopRocks(w1, draws)))

ngOnDestroyRocks(w) ==
    IF w.c.animationFrameId # 0
    THEN [w EXCEPT !.pending = Remove(@, w.c.animationFrameId)]
    ELSE w

(***************************************************************************)
(* The asteroid game as a state machine: keys pressed and released, window *)
(* resizes, animation frames and the destruction of the component.         *)
(***************************************************************************)
RocksWorld ==
    [c |-> spaceRocks, pending |-> pending, now |-> now, hung |-> hung,
     destroyed |-> <<>>]

SetRocksWorld(w) ==
    /\ spaceRocks' = w.c
    /\ pending' = w.pending
    /\ now' = w.now
    /\ hung' = w.hung

RocksEvent(type, key, w) ==
    [type |-> type, key |-> key,
     before |-> [paused |-> spaceRocks.paused, gameOver |-> spaceRocks.gameOver],
     destroyed |-> w.destroyed]

\* the callbacks of one animation frame run back to back, oldest first
RECURSIVE runRocksCallbacks(_, _, _)
runRocksCallbacks(w, batch, draws) ==
    IF batch = <<>> \/ w.hung THEN w
    ELSE Then(gameLoopRocks(w, draws),
              LAMBDA v : runRocksCallbacks(v, Tail(batch), draws))

\* one animation frame, gap ms after the last event
RocksFrameOf(w, gap, draws) ==
    runRocksCallbacks([w EXCEPT !.pending = <<>>, !.now = @ + gap, !.destroyed = <<>>],
                      w.pending, draws)

\* n frames in a row: the first half of them, then the rest
RECURSIVE RocksFrames(_, _, _, _)
RocksFrames(w, n, gap, draws) ==
    IF n = 0 \/ w.hung THEN w
    ELSE IF n = 1 THEN RocksFrameOf(w, gap, draws)
    ELSE Then(RocksFrames(w, n \div 2, gap, draws),
              LAMBDA v : RocksFrames(v, n - n \div 2, gap, draws))

\* n times: the space bar, then a slow frame
RECURSIVE Volley(_, _, _)
Volley(w, n, draws) ==
    IF n = 0 THEN w
    ELSE LET pressed == handleKeyDownRocks(w, " ", draws)
             released == [pressed EXCEPT !.c = handleKeyUp(@, " ")]
         IN  Then(RocksFrameOf(released, Max(RocksGaps), draws),
                  LAMBDA v : Volley(v, n - 1, draws))

RocksKeys == {" ", "p", "P", "r", "ArrowLeft", "ArrowUp", "d", "Escape"}

RocksWindows == {[innerWidth |-> 800, innerHeight |-> 600],
                 [innerWidth |-> 640, innerHeight |-> 480]}

\* draws of createAsteroid: heading down at full speed, up at half speed,
\* right and left at three quarters
Down == [angle |-> 1571, factor |-> 100, rotation |-> 10]
Up == [angle |-> 4712, factor |-> 50, rotation |-> -10]
Right == [angle |-> 0, factor |-> 75, rotation |-> 25]
Left == [angle |-> 3142, factor |-> 75, rotation |-> -25]

\* spawn draws of createAsteroids: above the middle, and near three corners
At(fx, fy, draw) ==
    [fx |-> fx, fy |-> fy, angle |-> draw.angle, factor |-> draw.factor,
     rotation |-> draw.rotation]

Spawns == << At(50, 20, Down), At(10, 10, Right), At(90, 90, Left), At(10, 90, Up),
             At(50, 50, Up) >>

\* the draws of one handler
Draws0 == [kids |-> <<Down, Up>>, speed |-> 300, spawns |-> Spawns]
Draws1 == [kids |-> <<Left, Right>>, speed |-> 200, spawns |-> Spawns]
RocksDraws == {Draws0, Draws1}

\* the state ngOnInit leaves: four large asteroids and one frame requested
FreshRocks(window, draws) == ngOnInitRocks(window, MountTime, draws)

MainWindow == [innerWidth |-> 800, innerHeight |-> 600]

\* six shots at the asteroid coming down on the ship, a slow frame after
\* each, then nine frames: the first bullet is one frame from the asteroid
BulletsNearRock == RocksFrames(Volley(FreshRocks(MainWindow, Draws0), 6, Draws0), 9, 16, Draws0)

\* the player does nothing: the asteroid is one frame from the ship
RockNearShip == RocksFrames(FreshRocks(MainWindow, Draws0), 124, 16, Draws0)

\* the ship was hit twice and a piece of the asteroid is two frames from it
RockNearLastShip == RocksFrames(FreshRocks(MainWindow, Draws0), 138, 16, Draws0)

\* late in the first level: 4 large, 8 medium and 15 small asteroids are
\* destroyed, the last small one drifts away above the ship, which has
\* never moved, and the particles of the last explosion are gone
LastRock ==
    LET w == FreshRocks(MainWindow, Draws0)
        rock == createAsteroid([x |-> Px(400), y |-> Px(260)], "small", Up)
    IN  [w EXCEPT !.c.asteroids = <<rock>>,
                  !.c.score = 4 * scoreMap.large + 8 * scoreMap.medium + 15 * scoreMap.small,
                  !.c.lastShot = MountTime - SHOT_DELAY]

InitRocks ==
    /\ \E w \in {FreshRocks(window, draws) : window \in RocksWindows, draws \in RocksDraws}
                \cup {BulletsNearRock, RockNearShip, RockNearLastShip, LastRock} :
          /\ spaceRocks = w.c
          /\ pending = w.pending
          /\ now = w.now
          /\ hung = w.hung
          /\ lastEvent = [type |-> "frame", key |-> "",
                          before |-> [paused |-> FALSE, gameOver |-> FALSE],
                          destroyed |-> w.destroyed]
    /\ NoDrop /\ NoSnake /\ NoArcade
    /\ mounted = TRUE
    /\ steps = 0

RocksKeyDown ==
    /\ mounted /\ ~hung
    /\ steps < MaxRocksSteps
    /\ \E key \in RocksKeys :
        \E draws \in IF key = "r" /\ spaceRocks.gameOver THEN RocksDraws ELSE {Draws0} :
            \E w \in {handleKeyDownRocks(RocksWorld, key, draws)} :
                /\ SetRocksWorld(w)
                /\ lastEvent' = RocksEvent("keydown", key, w)
    /\ steps' = steps + 1
    /\ UNCHANGED <<mounted, OutsideRocks>>

\* a key that is down is released
RocksKeyUp ==
    /\ mounted /\ ~hung
    /\ steps < MaxRocksSteps
    /\ \E key \in RocksKeys :
        /\ toLowerCase(key) \in spaceRocks.keys
        /\ spaceRocks' = handleKeyUp(spaceRocks, key)
        /\ lastEvent' = RocksEvent("keyup", key, RocksWorld)
    /\ steps' = steps + 1
    /\ UNCHANGED <<pending, now, hung, mounted, OutsideRocks>>

RocksResize ==
    /\ mounted /\ ~hung
    /\ steps < MaxRocksSteps
    /\ \E window \in RocksWindows :
        /\ window.innerWidth # spaceRocks.canvas.width
        /\ spaceRocks' = handleResize(spaceRocks, window)
    /\ lastEvent' = RocksEvent("resize", "", RocksWorld)
    /\ steps' = steps + 1
    /\ UNCHANGED <<pending, now, hung, mounted, OutsideRocks>>

RocksFrame ==
    /\ pending # <<>> /\ ~hung
    /\ steps < MaxRocksSteps
    /\ \E gap \in RocksGaps, draws \in RocksDraws :
        \E w \in {RocksFrameOf(RocksWorld, gap, draws)} :
            /\ SetRocksWorld(w)
            /\ lastEvent' = RocksEvent("frame", "", w)
    /\ steps' = steps + 1
    /\ UNCHANGED <<mounted, OutsideRocks>>

RocksDestroy ==
    /\ mounted /\ ~hung
    /\ steps < MaxRocksSteps
    /\ SetRocksWorld(ngOnDestroyRocks(RocksWorld))
    /\ mounted' = FALSE
    /\ lastEvent' = RocksEvent("ngOnDestroy", "", RocksWorld)
    /\ steps' = steps + 1
    /\ UNCHANGED OutsideRocks

NextRocks == RocksKeyDown \/ RocksKeyUp \/ RocksResize \/ RocksFrame \/ RocksDestroy

SpecRocks == InitRocks /\ [][NextRocks]_vars

(***************************************************************************)
(* Claims about the falling-piece game.                                    *)
(***************************************************************************)
\* an occupied cell of pattern placed at column x lies left of the board
LeavesLeft(x, pattern) ==
    \E row \in 0..(Len(pattern) - 1) :
        \E col \in 0..(Len(pattern[row + 1]) - 1) :
            Cell(pattern, row, col) # 0 /\ x + col < 0

\* C1: a rotate key press that finds the game running places the rotated
\* pattern at the first valid of the offsets (0,0), (-1,0), (+1,0), (-2,0),
\* (+2,0), (0,-1), pattern and offset together; when the rotated pattern at
\* the unchanged position leaves the board on the left and is valid one
\* column to the right, the piece ends at x + 1 with the pattern rotated.
C1_RotateTakesFirstValidKick ==
    [][ (/\ lastEvent'.type = "keydown"
         /\ lastEvent'.key = "ArrowUp"
         /\ ~shapeDrop.gameOver
         /\ ~shapeDrop.paused)
        => LET rotated == rotatePattern(shapeDrop.currentPiece.pattern)
               x == shapeDrop.currentPosition.x
               y == shapeDrop.currentPosition.y
               Valid(dx, dy) == isValidMove(shapeDrop.board, x + dx, y + dy, rotated)
               Placed(dx, dy) ==
                   /\ shapeDrop'.currentPiece.pattern = rotated
                   /\ shapeDrop'.currentPosition = [x |-> x + dx, y |-> y + dy]
           IN  /\ Valid(0, 0) => Placed(0, 0)
               /\ ~Valid(0, 0) /\ Valid(-1, 0) => Placed(-1, 0)
               /\ ~Valid(0, 0) /\ ~Valid(-1, 0) /\ Valid(1, 0) => Placed(1, 0)
               /\ ~Valid(0, 0) /\ ~Valid(-1, 0) /\ ~Valid(1, 0) /\ Valid(-2, 0)
                      => Placed(-2, 0)
               /\ ~Valid(0, 0) /\ ~Valid(-1, 0) /\ ~Valid(1, 0) /\ ~Valid(-2, 0)
                      /\ Valid(2, 0) => Placed(2, 0)
               /\ ~Valid(0, 0) /\ ~Valid(-1, 0) /\ ~Valid(1, 0) /\ ~Valid(-2, 0)
                      /\ ~Valid(2, 0) /\ Valid(0, -1) => Placed(0, -1)
               /\ LeavesLeft(x, rotated) /\ Valid(1, 0) => Placed(1, 0)
      ]_vars

\* C1 witness: a rotate key press found the rotated pattern off the board on
\* the left at the piece's column and the piece is now one column to the right
C1_Witness ==
    /\ lastEvent.type = "keydown"
    /\ lastEvent.key = "ArrowUp"
    /\ ~lastEvent.before.gameOver
    /\ ~lastEvent.before.paused
    /\ LeavesLeft(lastEvent.before.x, shapeDrop.currentPiece.pattern)
    /\ shapeDrop.currentPosition.x = lastEvent.before.x + 1
    /\ shapeDrop.currentPosition.y = lastEvent.before.y

(***************************************************************************)
(* clearLines() on its own: boards with any rows full, at most MaxFullRows *)
(* of them.  A row that is not full is empty above row `top` and has one   *)
(* hole below it; the colours and the hole depend on the row, so that no   *)
(* two rows of a board are equal and the order of the rows can be told.    *)
(***************************************************************************)
\* the subsets of 0..(n - 1) with at most k elements
RECURSIVE SubsetsUpTo(_, _)
SubsetsUpTo(n, k) ==
    IF k = 0 \/ n = 0 THEN {{}}
    ELSE SubsetsUpTo(n - 1, k) \cup {f \cup {n - 1} : f \in SubsetsUpTo(n - 1, k - 1)}

\* rows above these rows are empty unless they are full
TopRows == {0, 7, ROWS}

FamilyBoard(full, top) ==
    [r \in 1..ROWS |-> [k \in 1..COLS |->
        IF (r - 1) \in full THEN ((r + k) % 7) + 1
        ELSE IF r - 1 < top THEN 0
        ELSE IF k - 1 = (r - 1) % COLS THEN 0
        ELSE ((r + k) % 7) + 1]]

InitClear ==
    /\ \E full \in SubsetsUpTo(ROWS, MaxFullRows), top \in TopRows :
           shapeDrop = [NewShapeDrop EXCEPT !.board = FamilyBoard(full, top)]
    /\ pending = <<>>
    /\ loopCalls = <<NoCall, NoCall>>
    /\ NoSnake /\ NoRocks /\ NoArcade /\ hung = FALSE
    /\ now = 0
    /\ mounted = TRUE
    /\ lastEvent = [type |-> "board"]
    /\ steps = 0

\* const linesCleared = this.clearLines()
CallClearLines ==
    /\ lastEvent.type = "board"
    /\ LET cleared == clearLines(shapeDrop.board)
       IN  /\ shapeDrop' = [shapeDrop EXCEPT !.board = cleared.board]
           /\ lastEvent' = [type |-> "clearLines", board |-> shapeDrop.board,
                            linesCleared |-> cleared.linesCleared]
    /\ UNCHANGED <<pending, loopCalls, now, mounted, steps, OutsideDrop>>

NextClear == CallClearLines

SpecClear == InitClear /\ [][NextClear]_vars

\* the rows of board, top to bottom, that have an empty cell
PartialRows(board) ==
    SelectSeq(board, LAMBDA line : \E k \in DOMAIN line : line[k] = 0)

FullRows(board) ==
    {r \in DOMAIN board : \A k \in DOMAIN board[r] : board[r][k] # 0}

\* C2: clearLines() removes exactly the rows without an empty cell, keeps the
\* other rows in order below one new empty row per removed row (20 rows of 10
\* cells again), returns the number of rows that were full and leaves no full
\* row.
C2_ClearLinesRemovesExactlyFullRows ==
    lastEvent.type = "clearLines" =>
        LET n == Cardinality(FullRows(lastEvent.board))
        IN  /\ lastEvent.linesCleared = n
            /\ Len(shapeDrop.board) = 20
            /\ \A r \in DOMAIN shapeDrop.board : Len(shapeDrop.board[r]) = 10
            /\ shapeDrop.board =
                   [r \in 1..n |-> [k \in 1..10 |-> 0]] \o PartialRows(lastEvent.board)
            /\ FullRows(shapeDrop.board) = {}

\* C2 witness: a board with two adjacent full rows and a third full row apart
\* from them has been cleared
C2_Witness ==
    /\ lastEvent.type = "clearLines"
    /\ lastEvent.linesCleared = 3
    /\ \E r \in 1..19 : {r, r + 1} \subseteq FullRows(lastEvent.board)
    /\ \E r \in 2..19 : r \in FullRows(lastEvent.board)
                        /\ r - 1 \notin FullRows(lastEvent.board)
                        /\ r + 1 \notin FullRows(lastEvent.board)

\* C6: a keydown of 'p' or 'P' that finds the game paused and not over
\* leaves it running (the claim as stated).
C6_PauseKeyResumes ==
    (/\ lastEvent.type = "keydown"
     /\ lastEvent.key \in {"p", "P"}
     /\ lastEvent.before.paused
     /\ ~lastEvent.before.gameOver)
    => ~shapeDrop.paused

\* C7: a gameLoop run that updates, following a gameLoop run that found the
\* game paused, hands update() exactly the time since that paused run.
C7_UpdateAfterPauseGetsTimeSincePausedFrame ==
    (loopCalls[1].paused /\ ~loopCalls[2].paused)
    => loopCalls[2].deltaTime = loopCalls[2].timestamp - loopCalls[1].timestamp

\* C7 witness: the first frame after a resume has run; its update followed a
\* paused frame and the drop counter holds only the time since that frame
C7_Witness ==
    /\ lastEvent.type = "frame"
    /\ loopCalls[1].paused
    /\ ~loopCalls[2].paused
    /\ loopCalls[2].deltaTime > 0
    /\ loopCalls[1].timestamp > MountTime
    /\ shapeDrop.dropCounter = loopCalls[2].deltaTime

\* C8: at most one gameLoop callback is pending and animationFrameId is its
\* handle (the claim as stated).
C8_OneCallbackPending ==
    /\ Len(pending) <= 1
    /\ pending # <<>> => pending[1] = shapeDrop.animationFrameId

\* C9: once the component is destroyed no gameLoop callback is pending and no
\* frame runs gameLoop (the claim as stated).
C9_DestroyStopsLoop ==
    ~mounted => (pending = <<>> /\ lastEvent.type # "frame")

(***************************************************************************)
(* Claims about the snake game.                                            *)
(***************************************************************************)
\* the cell update moves the head to, read off the state before the tick
AheadOf(c) ==
    LET head == c.snake[1]
    IN  CASE c.nextDirection = "UP" -> [x |-> head.x, y |-> head.y - 1]
          [] c.nextDirection = "DOWN" -> [x |-> head.x, y |-> head.y + 1]
          [] c.nextDirection = "LEFT" -> [x |-> head.x - 1, y |-> head.y]
          [] c.nextDirection = "RIGHT" -> [x |-> head.x + 1, y |-> head.y]

Collides(c) ==
    LET p == AheadOf(c)
    IN  \/ p.x < 0 \/ p.x >= c.cols \/ p.y < 0 \/ p.y >= c.rows
        \/ \E i \in DOMAIN c.snake : c.snake[i] = p

Reinitialised(c) ==
    /\ c.snake = << [x |-> c.cols \div 2, y |-> c.rows \div 2],
                    [x |-> c.cols \div 2 - 1, y |-> c.rows \div 2],
                    [x |-> c.cols \div 2 - 2, y |-> c.rows \div 2] >>
    /\ c.score = 0
    /\ c.currentSpeed = INITIAL_SPEED
    /\ c.direction = "RIGHT" /\ c.nextDirection = "RIGHT"

\* C4: under key presses, window resizes and timer ticks the phase of the
\* snake game changes only READY->PLAYING on a start key, PLAYING->PAUSED on
\* a pause key, PAUSED->PLAYING on a resume key, PLAYING->GAME_OVER on a tick
\* whose move hits a wall or the snake, and GAME_OVER->PLAYING on a restart
\* key with snake, score and speed re-initialised; no other change happens.
C4_PhaseChangesOnlyAlongTheDiagram ==
    [][snakeGame'.gameState # snakeGame.gameState =>
        LET from == snakeGame.gameState
            to == snakeGame'.gameState
            e == lastEvent'
        IN  \/ /\ from = "READY" /\ to = "PLAYING"
               /\ e.type = "keydown" /\ e.key \in {" ", "Enter"}
            \/ /\ from = "PLAYING" /\ to = "PAUSED"
               /\ e.type = "keydown" /\ e.key \in {" ", "p", "P"}
            \/ /\ from = "PAUSED" /\ to = "PLAYING"
               /\ e.type = "keydown" /\ e.key \in {" ", "p", "P"}
            \/ /\ from = "PLAYING" /\ to = "GAME_OVER"
               /\ e.type = "tick" /\ Collides(snakeGame)
            \/ /\ from = "GAME_OVER" /\ to = "PLAYING"
               /\ e.type = "keydown" /\ e.key \in {" ", "Enter"}
               /\ Reinitialised(snakeGame')]_vars

\* a game that ended with points scored was restarted by a key
C4_Witness ==
    /\ lastEvent.type = "keydown" /\ lastEvent.before = "GAME_OVER"
    /\ snakeGame.gameState = "PLAYING"
    /\ snakeGame.highScore > 0 /\ localStorage = toString(snakeGame.highScore)

\* C10: while the snake game is mounted exactly one interval timer is active
\* in PLAYING and none in READY, PAUSED and GAME_OVER; update runs only in
\* PLAYING; after ngOnDestroy no timer is active.
C10_OneTimerExactlyWhenPlaying ==
    /\ mounted =>
          IF snakeGame.gameState = "PLAYING"
          THEN Cardinality(intervals) = 1
          ELSE intervals = {}
    /\ lastEvent.type = "tick" => lastEvent.before = "PLAYING"
    /\ ~mounted => intervals = {}

\* a tick of a fresh game ate the first apple and replaced the timer by a
\* faster one
C10_Witness ==
    /\ mounted /\ lastEvent.type = "tick" /\ steps > 0
    /\ snakeGame.gameState = "PLAYING"
    /\ snakeGame.score = 10
    /\ snakeGame.currentSpeed = INITIAL_SPEED - SPEED_INCREMENT
    /\ intervals = {[id |-> snakeGame.gameLoop, delay |-> snakeGame.currentSpeed]}

(***************************************************************************)
(* Claims about the asteroid game.                                         *)
(***************************************************************************)
\* what one call of destroyAsteroid appended, given the list it found
Appended(call) == SubSeq(call.after, Len(call.before), Len(call.after))

\* C3: every call of destroyAsteroid removes exactly the asteroid at its index
\* and appends exactly 2 medium asteroids at the parent's position for a
\* large parent, exactly 2 small ones at the parent's position for a medium
\* parent and nothing for a small parent; the other asteroids stay as they
\* were, in their order.
C3_DestroyAsteroidSplitsBySize ==
    \A k \in DOMAIN lastEvent.destroyed :
        LET call == lastEvent.destroyed[k]
            parent == call.before[call.index]
            pieces == Appended(call)
        IN  /\ SubSeq(call.after, 1, Len(call.before) - 1) = Splice(call.before, call.index)
            /\ Len(pieces) = IF parent.size = "small" THEN 0 ELSE 2
            /\ \A i \in DOMAIN pieces :
                  /\ pieces[i].pos = parent.pos
                  /\ pieces[i].size = IF parent.size = "large" THEN "medium" ELSE "small"
                  /\ pieces[i].radius = IF parent.size = "large" THEN 25 ELSE 15

\* a frame destroyed a medium asteroid that was not the last of the list
C3_Witness ==
    /\ lastEvent.type = "frame"
    /\ \E k \in DOMAIN lastEvent.destroyed :
          LET call == lastEvent.destroyed[k]
          IN  /\ call.before[call.index].size = "medium"
              /\ call.index < Len(call.before)
              /\ Len(call.after) = Len(call.before) + 1

\* what the claim lists: the ship's position, velocity and angle, the
\* asteroids, bullets and particles, the score, the lives and the level
Entities(c) ==
    [ship |-> [pos |-> c.ship.pos, vel |-> c.ship.vel, angle |-> c.ship.angle],
     asteroids |-> c.asteroids, bullets |-> c.bullets, particles |-> c.particles,
     score |-> c.score, lives |-> c.lives, level |-> c.level]

\* C5: while paused is true and the game is not over, no frame and no key
\* event other than the pause key changes the ship's position, velocity or
\* angle, any asteroid, bullet or particle, the score, the lives or the level.
C5_PausedFreezesEntities ==
    [][(/\ spaceRocks.paused /\ ~spaceRocks.gameOver
        /\ lastEvent'.type \in {"frame", "keydown", "keyup"}
        /\ ~(lastEvent'.type = "keydown" /\ lastEvent'.key \in {"p", "P"}))
       => Entities(spaceRocks') = Entities(spaceRocks)]_vars

\* a frame found the game paused with bullets, particles and asteroids in
\* flight
C5_Witness ==
    /\ lastEvent.type = "frame" /\ lastEvent.before.paused /\ ~spaceRocks.gameOver
    /\ spaceRocks.paused
    /\ spaceRocks.bullets # <<>> /\ spaceRocks.particles # <<>>
    /\ spaceRocks.asteroids # <<>>

(***************************************************************************)
(* The brick game: src/unnamed/part_001 (BustoutGameComponent).  Lengths,  *)
(* positions and speeds are in hundredths of a pixel, as Px gives them;    *)
(* the canvas size is kept in pixels.                                      *)
(***************************************************************************)
paddleWidth == 80
paddleHeight == 12
paddleSpeed == 8
brickRowCount == 8
brickColumnCount == 14
brickHeight == 20
brickPadding == 4
brickOffsetTop == 60
brickOffsetLeft == 4

NewBustout ==
    [animationFrameId |-> 0, gameStarted |-> FALSE, gameOver |-> FALSE,
     score |-> 0, lives |-> 5, level |-> 1, paddleX |-> 0,
     rightPressed |-> FALSE, leftPressed |-> FALSE,
     balls |-> <<>>, ballSpeed |-> Px(4), bricks |-> <<>>, brickWidth |-> 0,
     canvas |-> [width |-> 0, height |-> 0]]

\* color is the index of the brick's colour in colors
initBricks(c) ==
    [c EXCEPT !.bricks =
        [n \in 1..(brickRowCount * brickColumnCount) |->
            LET row == (n - 1) \div brickColumnCount
                col == (n - 1) % brickColumnCount
            IN  [x |-> col * (c.brickWidth + Px(brickPadding)) + Px(brickOffsetLeft),
                 y |-> Px(row * (brickHeight + brickPadding) + brickOffsetTop),
                 width |-> c.brickWidth, height |-> Px(brickHeight),
                 active |-> TRUE, color |-> row % 8,
                 points |-> (brickRowCount - row) * 10]]]

\* the canvas takes the size of the window; the windows explored make the
\* paddle position and the brick width whole numbers of hundredths
initCanvas(c, window) ==
    initBricks([c EXCEPT
        !.canvas = [width |-> window.innerWidth, height |-> window.innerHeight],
        !.paddleX = (Px(window.innerWidth) - Px(paddleWidth)) \div 2,
        !.brickWidth = (Px(window.innerWidth) - Px(brickOffsetLeft) * 2
                        - (brickColumnCount - 1) * Px(brickPadding))
                       \div brickColumnCount])

\* the ball of startGame, of a lost life and of a new level; side is 1 when
\* Math.random() > 0.5 and -1 otherwise
newBall(c, side) ==
    [x |-> Px(c.canvas.width) \div 2, y |-> Px(c.canvas.height) - Px(100),
     dx |-> c.ballSpeed * side, dy |-> -c.ballSpeed, radius |-> Px(6)]

\* the ball balls[i] moved and bounced off the walls, the top and the paddle
\* (lines 360-387); the spin is rounded down to a hundredth of a pixel
bounced(c, ball) ==
    Then([ball EXCEPT !.x = @ + ball.dx, !.y = @ + ball.dy], LAMBDA moved :
    Then(IF moved.x + moved.radius > Px(c.canvas.width) \/ moved.x - moved.radius < 0
         THEN [moved EXCEPT !.dx = -@] ELSE moved, LAMBDA walled :
    Then(IF walled.y - walled.radius < 0
         THEN [walled EXCEPT !.dy = -@] ELSE walled, LAMBDA topped :
        IF /\ topped.y + topped.radius > Px(c.canvas.height) - Px(paddleHeight) - Px(20)
           /\ topped.y + topped.radius < Px(c.canvas.height) - Px(15)
           /\ topped.x > c.paddleX
           /\ topped.x < c.paddleX + Px(paddleWidth)
        THEN [topped EXCEPT
                !.dx = ((topped.x - c.paddleX) * c.ballSpeed * 2) \div Px(paddleWidth)
                       - c.ballSpeed,
                !.dy = -Abs(@)]
        ELSE topped)))

\* the active bricks that ball overlaps (lines 417-424)
bricksHit(c, ball) ==
    {n \in DOMAIN c.bricks :
        /\ c.bricks[n].active
        /\ ball.x + ball.radius > c.bricks[n].x
        /\ ball.x - ball.radius < c.bricks[n].x + c.bricks[n].width
        /\ ball.y + ball.radius > c.bricks[n].y
        /\ ball.y - ball.radius < c.bricks[n].y + c.bricks[n].height}

\* the loop over the balls (lines 357-432), from balls[i] down to the first
RECURSIVE ballsFrom(_, _, _)
ballsFrom(c, i, side) ==
    IF i < 1 THEN c
    ELSE Then(bounced(c, c.balls[i]), LAMBDA ball :
         IF ball.y + ball.radius > Px(c.canvas.height)
         THEN Then([c EXCEPT !.balls = Splice(@, i)], LAMBDA spliced :
              Then(IF Len(spliced.balls) # 0 THEN spliced
                   ELSE IF spliced.lives - 1 <= 0
                   THEN [spliced EXCEPT !.lives = @ - 1, !.gameOver = TRUE,
                                        !.gameStarted = FALSE]
                   ELSE [spliced EXCEPT !.lives = @ - 1,
                                        !.balls = Append(@, newBall(spliced, side))],
                   LAMBDA lost : ballsFrom(lost, i - 1, side)))
         ELSE Then(bricksHit(c, ball), LAMBDA hits :
              Then(IF hits = {} THEN [c EXCEPT !.balls[i] = ball]
                   ELSE [c EXCEPT !.balls[i] = [ball EXCEPT !.dy = -@],
                                  !.bricks[Min(hits)].active = FALSE,
                                  !.score = @ + c.bricks[Min(hits)].points],
                   LAMBDA hit : ballsFrom(hit, i - 1, side))))

updateBustout(c, side) ==
    Then(IF c.rightPressed /\ c.paddleX < Px(c.canvas.width) - Px(paddleWidth)
         THEN [c EXCEPT !.paddleX = @ + Px(paddleSpeed)] ELSE c, LAMBDA right :
    Then(IF right.leftPressed /\ right.paddleX > 0
         THEN [right EXCEPT !.paddleX = @ - Px(paddleSpeed)] ELSE right, LAMBDA left :
    Then(ballsFrom(left, Len(left.balls), side), LAMBDA played :
        IF \A n \in DOMAIN played.bricks : ~played.bricks[n].active
        THEN Then(initBricks([played EXCEPT !.level = @ + 1, !.ballSpeed = @ + 50]),
                  LAMBDA next : [next EXCEPT !.balls = <<newBall(next, side)>>])
        ELSE played)))

\* w is the component c with the animation-frame callbacks not yet run
gameLoopBustout(w, side) ==
    Then(updateBustout(w.c, side), LAMBDA c1 :
        IF c1.gameStarted /\ ~c1.gameOver
        THEN LET handle == FreshHandle(Range(w.pending), c1.animationFrameId)
             IN  [w EXCEPT !.c = [c1 EXCEPT !.animationFrameId = handle],
                           !.pending = Append(@, handle)]
        ELSE [w EXCEPT !.c = c1])

startGameBustout(w, side) ==
    Then([w EXCEPT !.c.gameStarted = TRUE, !.c.gameOver = FALSE,
                   !.c.balls = <<newBall(w.c, side)>>],
         LAMBDA started : gameLoopBustout(started, side))

resetGame(c) ==
    initBricks([c EXCEPT !.score = 0, !.lives = 5, !.level = 1,
                         !.gameStarted = FALSE, !.gameOver = FALSE, !.balls = <<>>])

handleKeyDownBustout(w, key, side) ==
    IF key \in {"Right", "ArrowRight", "d"} THEN [w EXCEPT !.c.rightPressed = TRUE]
    ELSE IF key \in {"Left", "ArrowLeft", "a"} THEN [w EXCEPT !.c.leftPressed = TRUE]
    ELSE IF key = " " /\ ~w.c.gameStarted THEN startGameBustout(w, side)
    ELSE IF key = "r" /\ w.c.gameOver THEN [w EXCEPT !.c = resetGame(@)]
    ELSE w

handleKeyUpBustout(c, key) ==
    IF key \in {"Right", "ArrowRight", "d"} THEN [c EXCEPT !.rightPressed = FALSE]
    ELSE IF key \in {"Left", "ArrowLeft", "a"} THEN [c EXCEPT !.leftPressed = FALSE]
    ELSE c

\* relativeX is event.clientX minus the left edge of the canvas, in pixels
handleMouseMove(c, relativeX) ==
    IF relativeX > 0 /\ relativeX < c.canvas.width
    THEN [c EXCEPT !.paddleX = Px(relativeX) - Px(paddleWidth) \div 2]
    ELSE c

ngOnDestroyBustout(w) ==
    IF w.c.animationFrameId # 0
    THEN [w EXCEPT !.pending = Remove(@, w.c.animationFrameId)]
    ELSE w

\* ngOnInit, and the zero-delay timer it sets has run initCanvas
ngOnInitBustout(window) == [c |-> initCanvas(NewBustout, window), pending |-> <<>>]

(***************************************************************************)
(* The brick game as a state machine: keys pressed and released, mouse     *)
(* moves, window resizes, animation frames and the destruction of the      *)
(* component.                                                              *)
(***************************************************************************)
\* events (keys, mouse moves, resizes, frames) delivered to the brick game
MaxBustoutSteps == 4

BustoutWorld == [c |-> bustout, pending |-> pending]

SetBustoutWorld(w) ==
    /\ bustout' = w.c
    /\ pending' = w.pending

BustoutKeys == {" ", "r", "ArrowRight", "a", "Enter"}
BustoutWindows ==
    {[innerWidth |-> 788, innerHeight |-> 400], [innerWidth |-> 648, innerHeight |-> 400]}
\* the outcomes of Math.random() > 0.5 ? 1 : -1
Sides == {1, -1}

\* one animation frame: the callbacks pending run back to back, oldest first
RECURSIVE runBustoutCallbacks(_, _, _)
runBustoutCallbacks(w, batch, side) ==
    IF batch = <<>> THEN w
    ELSE Then(gameLoopBustout(w, side),
              LAMBDA v : runBustoutCallbacks(v, Tail(batch), side))

BustoutFrameOf(w, side) == runBustoutCallbacks([w EXCEPT !.pending = <<>>], w.pending, side)

\* n frames in a row: the first half of them, then the rest
RECURSIVE BustoutFrames(_, _, _)
BustoutFrames(w, n, side) ==
    IF n = 0 THEN w
    ELSE IF n = 1 THEN BustoutFrameOf(w, side)
    ELSE Then(BustoutFrames(w, n \div 2, side),
              LAMBDA v : BustoutFrames(v, n - n \div 2, side))

FreshBustout(window) == ngOnInitBustout(window)

\* the player starts the game and never moves the paddle: four balls are
\* lost, 63 bricks are hit and the fifth ball is one frame from the bottom
LastBall ==
    BustoutFrames(handleKeyDownBustout(FreshBustout([innerWidth |-> 788, innerHeight |-> 400]),
                                       " ", 1),
                  520, 1)

InitBustout ==
    /\ \E w \in {FreshBustout(window) : window \in BustoutWindows} \cup {LastBall} :
          /\ bustout = w.c
          /\ pending = w.pending
    /\ NoDrop /\ NoSnake /\ NoRocks /\ NoFrogger /\ NoInvaders
    /\ hung = FALSE /\ now = 0
    /\ lastEvent = [type |-> "ngOnInit", key |-> ""]
    /\ mounted = TRUE
    /\ steps = 0

BustoutKeyDown ==
    /\ mounted
    /\ steps < MaxBustoutSteps
    /\ \E key \in BustoutKeys :
        \E side \in IF key = " " /\ ~bustout.gameStarted THEN Sides ELSE {1} :
            \E w \in {handleKeyDownBustout(BustoutWorld, key, side)} :
                /\ SetBustoutWorld(w)
                /\ lastEvent' = [type |-> "keydown", key |-> key]
    /\ steps' = steps + 1
    /\ UNCHANGED <<mounted, OutsideBustout>>

BustoutKeyUp ==
    /\ mounted
    /\ steps < MaxBustoutSteps
    /\ \E key \in {"ArrowRight", "a"} :
        /\ IF key = "a" THEN bustout.leftPressed ELSE bustout.rightPressed
        /\ bustout' = handleKeyUpBustout(bustout, key)
        /\ lastEvent' = [type |-> "keyup", key |-> key]
    /\ steps' = steps + 1
    /\ UNCHANGED <<pending, mounted, OutsideBustout>>

\* event.clientX - rect.left of the mouse moves delivered: on the left edge
\* of the canvas, 10 px inside it, in the middle, and 43 px from the right
\* edge of the wider window
MousePlaces == {0, 10, 300, 745}

BustoutMouseMove ==
    /\ mounted
    /\ steps < MaxBustoutSteps
    /\ \E relativeX \in MousePlaces :
        /\ bustout' = handleMouseMove(bustout, relativeX)
        /\ lastEvent' = [type |-> "mousemove", key |-> ""]
    /\ steps' = steps + 1
    /\ UNCHANGED <<pending, mounted, OutsideBustout>>

BustoutResize ==
    /\ mounted
    /\ steps < MaxBustoutSteps
    /\ \E window \in BustoutWindows :
        /\ window.innerWidth # bustout.canvas.width
        /\ bustout' = initCanvas(bustout, window)
    /\ lastEvent' = [type |-> "resize", key |-> ""]
    /\ steps' = steps + 1
    /\ UNCHANGED <<pending, mounted, OutsideBustout>>

BustoutFrame ==
    /\ pending # <<>>
    /\ steps < MaxBustoutSteps
    /\ \E side \in Sides :
        \E w \in {BustoutFrameOf(BustoutWorld, side)} :
            SetBustoutWorld(w)
    /\ lastEvent' = [type |-> "frame", key |-> ""]
    /\ steps' = steps + 1
    /\ UNCHANGED <<mounted, OutsideBustout>>

BustoutDestroy ==
    /\ mounted
    /\ steps < MaxBustoutSteps
    /\ SetBustoutWorld(ngOnDestroyBustout(BustoutWorld))
    /\ mounted' = FALSE
    /\ lastEvent' = [type |-> "ngOnDestroy", key |-> ""]
    /\ steps' = steps + 1
    /\ UNCHANGED OutsideBustout

NextBustout ==
    \/ BustoutKeyDown \/ BustoutKeyUp \/ BustoutMouseMove \/ BustoutResize
    \/ BustoutFrame \/ BustoutDestroy

SpecBustout == InitBustout /\ [][NextBustout]_vars

(***************************************************************************)
(* Claims about the brick game.                                            *)
(***************************************************************************)
\* the game state the restart key resets
BustoutState(c) ==
    [score |-> c.score, lives |-> c.lives, level |-> c.level, balls |-> c.balls,
     bricks |-> c.bricks, gameStarted |-> c.gameStarted, gameOver |-> c.gameOver]

\* C11: once the game is over, the key 'r' resets score to 0, lives to 5 and
\* level to 1, and every other key press, Space included, leaves score,
\* lives, level, balls, bricks, gameStarted and gameOver as they are and
\* requests no animation frame.
C11_OnlyRestartKeyAfterGameOver ==
    [][(bustout.gameOver /\ lastEvent'.type = "keydown") =>
        IF lastEvent'.key = "r"
        THEN bustout'.score = 0 /\ bustout'.lives = 5 /\ bustout'.level = 1
        ELSE BustoutState(bustout') = BustoutState(bustout) /\ pending' = pending]_vars

\* C26: after every frame and every mouse move the paddle is inside the
\* playfield: 0 <= paddleX <= canvas.width - paddleWidth.
C26_PaddleStaysInPlayfield ==
    lastEvent.type \in {"frame", "mousemove"}
        => /\ 0 <= bustout.paddleX
           /\ bustout.paddleX <= Px(bustout.canvas.width) - Px(paddleWidth)

\* C34: 0 <= lives <= 5 in every state, and lives = 0 only while the game is
\* over: gameOver is set, no frame is requested and no ball is simulated.
C34_LivesInRangeAndZeroOnlyWhenOver ==
    /\ 0 <= bustout.lives /\ bustout.lives <= 5
    /\ bustout.lives = 0 => bustout.gameOver /\ ~bustout.gameStarted

\* the frame that takes the last life sets gameOver, clears gameStarted and
\* requests no frame
C34_LastLifeEndsGame ==
    (lastEvent.type = "frame" /\ bustout.lives = 0 /\ bustout.balls = <<>>)
        => bustout.gameOver /\ ~bustout.gameStarted

(***************************************************************************)
(* The frog-crossing game: src/unnamed/part_003 (HopperComponent).         *)
(* Positions, sizes and speeds are in thousandths of a pixel (Mil), which  *)
(* holds every speed of createObstacles exactly; timers count frames.      *)
(***************************************************************************)
CANVAS_WIDTH == 896
CANVAS_HEIGHT == 512
CELL_SIZE == 32
FROG_SIZE == 24

Mil(n) == n * 1000

\* f applied to the elements of q from the first to the last, as forEach does
RECURSIVE ForEach(_, _, _)
ForEach(F(_, _), acc, q) ==
    IF q = <<>> THEN acc
    ELSE Then(F(acc, Head(q)), LAMBDA next : ForEach(F, next, Tail(q)))

NoGoals == <<FALSE, FALSE, FALSE, FALSE, FALSE>>
NoFemaleFrog == <<>>

NewFrogger ==
    [animationId |-> 0,
     frog |-> [x |-> Mil(14 * CELL_SIZE), y |-> Mil(14 * CELL_SIZE),
               width |-> Mil(FROG_SIZE), height |-> Mil(FROG_SIZE), speed |-> 0],
     cars |-> <<>>, logs |-> <<>>, turtles |-> <<>>, snakes |-> <<>>,
     alligators |-> <<>>, femaleFrog |-> NoFemaleFrog,
     score |-> 0, lives |-> 3, gameOver |-> FALSE, won |-> FALSE, level |-> 1,
     goals |-> NoGoals,
     style |-> [width |-> 0, height |-> 0]]

\* canvas.style.width and height, in quarters of a pixel
resizeCanvasFrogger(c, window) ==
    IF window.innerWidth * CANVAS_HEIGHT > window.innerHeight * CANVAS_WIDTH
    THEN [c EXCEPT !.style = [width |-> window.innerHeight * 7,
                              height |-> window.innerHeight * 4]]
    ELSE [c EXCEPT !.style = [width |-> window.innerWidth * 4,
                              height |-> (window.innerWidth * 16) \div 7]]

resetFrog(c) ==
    [c EXCEPT !.frog.x = Mil(14 * CELL_SIZE), !.frog.y = Mil(14 * CELL_SIZE)]

\* an obstacle of lane row; tenths is ten times the factor of speedMultiplier
\* and multiplier is speedMultiplier in hundredths
Obstacle(x, row, width, tenths, multiplier) ==
    [x |-> Mil(x), y |-> Mil(row * CELL_SIZE), width |-> Mil(width),
     height |-> Mil(24), speed |-> tenths * multiplier]

Lane(xs, row, width, tenths, multiplier) ==
    [i \in DOMAIN xs |-> Obstacle(xs[i], row, width, tenths, multiplier)]

\* draws.timers are the values of Math.random() * 180 + 60, one for each
\* alligator; draws.female is Math.random() < 0.3; draws.goal is the second
\* Math.random() in tenths
createObstacles(c, draws) ==
    LET m == 30 + (c.level - 1) * 15
        alligatorGoals ==
            IF c.level >= 6 THEN <<0, 2, 4>>
            ELSE IF c.level >= 4 THEN <<1, 3>>
            ELSE IF c.level >= 3 THEN <<2>> ELSE <<>>
        emptyGoals == SelectSeq(<<0, 1, 2, 3, 4>>, LAMBDA i : ~c.goals[i + 1])
    IN  [c EXCEPT
          !.cars = Lane(<<0, 200, 400, 600>>, 8, 48, 20, m)
                   \o Lane(<<0, 250, 500, 750>>, 9, 40, -15, m)
                   \o Lane(<<0, 300, 600>>, 10, 56, 30, m)
                   \o Lane(<<0, 220, 440, 660>>, 11, 40, -25, m)
                   \o Lane(<<0, 250, 500, 750>>, 12, 48, 15, m),
          !.logs = Lane(<<0, 300, 600>>, 2, 128, 15, m)
                   \o Lane(<<0, 350, 700>>, 3, 160, -20, m)
                   \o Lane(<<0, 250, 500, 750>>, 5, 96, 25, m),
          !.turtles = Lane(<<0, 220, 440, 660>>, 4, 72, -10, m)
                      \o Lane(<<0, 250, 500, 750>>, 6, 80, 18, m),
          !.snakes =
              (IF c.level >= 2
               THEN <<[x |-> 0, y |-> Mil(2 * CELL_SIZE), width |-> Mil(32), height |-> Mil(20),
                       speed |-> 800, logIndex |-> 1, direction |-> 1, localX |-> Mil(20)]>>
               ELSE <<>>)
              \o (IF c.level >= 3
                  THEN <<[x |-> 0, y |-> Mil(3 * CELL_SIZE), width |-> Mil(32), height |-> Mil(20),
                          speed |-> 800, logIndex |-> 4, direction |-> -1, localX |-> Mil(80)]>>
                  ELSE <<>>)
              \o (IF c.level >= 5
                  THEN <<[x |-> 0, y |-> Mil(5 * CELL_SIZE), width |-> Mil(32), height |-> Mil(20),
                          speed |-> 800, logIndex |-> 7, direction |-> 1, localX |-> Mil(30)]>>
                  ELSE <<>>),
          !.alligators =
              [i \in DOMAIN alligatorGoals |->
                  [goalIndex |-> alligatorGoals[i], isActive |-> FALSE,
                   timer |-> draws.timers[i], activeTime |-> 120, inactiveTime |-> 180]],
          !.femaleFrog =
              IF c.level >= 2 /\ draws.female /\ Len(emptyGoals) > 0
              THEN [goalIndex |-> emptyGoals[(draws.goal * Len(emptyGoals)) \div 10 + 1],
                    isActive |-> TRUE, timer |-> 600, duration |-> 600]
              ELSE NoFemaleFrog]

initGameFrogger(c, draws) == createObstacles(resetFrog(c), draws)

checkOverlap(a, b) ==
    /\ a.x < b.x + b.width /\ a.x + a.width > b.x
    /\ a.y < b.y + b.height /\ a.y + a.height > b.y

\* mutant of loseLife: a lost life takes back the 10 points of a hop
loseLife_takesPoints(c) ==
    IF c.lives - 1 <= 0 THEN [c EXCEPT !.lives = @ - 1, !.score = @ - 10, !.gameOver = TRUE]
    ELSE resetFrog([c EXCEPT !.lives = @ - 1, !.score = @ - 10])

loseLife(c) ==
    IF c.lives - 1 <= 0 THEN [c EXCEPT !.lives = @ - 1, !.gameOver = TRUE]
    ELSE resetFrog([c EXCEPT !.lives = @ - 1])

\* mutant of reachGoalRow: a goal is filled without looking at what is in it
reachGoalRow_fillsAnyGoal(c, draws) ==
    LET goalIndex == (c.frog.x + Mil(FROG_SIZE) \div 2) \div (Mil(CANVAS_WIDTH) \div 5)
        goalX == goalIndex * (Mil(CANVAS_WIDTH) \div 5) + Mil(60)
    IN  IF /\ goalIndex >= 0 /\ goalIndex < 5
           /\ c.frog.x + Mil(FROG_SIZE) > goalX /\ c.frog.x < goalX + Mil(80)
        THEN Then(resetFrog([c EXCEPT !.goals[goalIndex + 1] = TRUE, !.score = @ + 100]),
                  LAMBDA home :
                 IF \A i \in DOMAIN home.goals : home.goals[i]
                 THEN resetFrog(createObstacles(
                          [home EXCEPT !.level = @ + 1, !.goals = NoGoals], draws))
                 ELSE home)
        ELSE loseLife(c)

\* mutant of reachGoalRow: the fifth goal wins the game
reachGoalRow_winsOnFullRow(c, draws) ==
    LET goalIndex == (c.frog.x + Mil(FROG_SIZE) \div 2) \div (Mil(CANVAS_WIDTH) \div 5)
        goalX == goalIndex * (Mil(CANVAS_WIDTH) \div 5) + Mil(60)
        gators == {i \in DOMAIN c.alligators : c.alligators[i].goalIndex = goalIndex}
        bonus == /\ c.femaleFrog # NoFemaleFrog
                 /\ c.femaleFrog.goalIndex = goalIndex /\ c.femaleFrog.isActive
    IN  IF /\ goalIndex >= 0 /\ goalIndex < 5
           /\ c.frog.x + Mil(FROG_SIZE) > goalX /\ c.frog.x < goalX + Mil(80)
        THEN IF gators # {} /\ c.alligators[Min(gators)].isActive THEN loseLife(c)
             ELSE Then(IF bonus THEN [c EXCEPT !.femaleFrog = NoFemaleFrog] ELSE c,
                       LAMBDA met :
                  IF ~met.goals[goalIndex + 1]
                  THEN Then(resetFrog([met EXCEPT
                                !.goals[goalIndex + 1] = TRUE,
                                !.score = @ + 100 + (IF bonus THEN 500 ELSE 0)]),
                            LAMBDA home :
                       IF \A i \in DOMAIN home.goals : home.goals[i]
                       THEN [home EXCEPT !.won = TRUE]
                       ELSE home)
                  ELSE loseLife(met))
        ELSE loseLife(c)

\* the frog is in the row of the goals (lines 280-317)
reachGoalRow(c, draws) ==
    LET goalIndex == (c.frog.x + Mil(FROG_SIZE) \div 2) \div (Mil(CANVAS_WIDTH) \div 5)
        goalX == goalIndex * (Mil(CANVAS_WIDTH) \div 5) + Mil(60)
        gators == {i \in DOMAIN c.alligators : c.alligators[i].goalIndex = goalIndex}
        bonus == /\ c.femaleFrog # NoFemaleFrog
                 /\ c.femaleFrog.goalIndex = goalIndex /\ c.femaleFrog.isActive
    IN  IF /\ goalIndex >= 0 /\ goalIndex < 5
           /\ c.frog.x + Mil(FROG_SIZE) > goalX /\ c.frog.x < goalX + Mil(80)
        THEN IF gators # {} /\ c.alligators[Min(gators)].isActive THEN loseLife(c)
             ELSE Then(IF bonus THEN [c EXCEPT !.femaleFrog = NoFemaleFrog] ELSE c,
                       LAMBDA met :
                  IF ~met.goals[goalIndex + 1]
                  THEN Then(resetFrog([met EXCEPT
                                !.goals[goalIndex + 1] = TRUE,
                                !.score = @ + 100 + (IF bonus THEN 500 ELSE 0)]),
                            LAMBDA home :
                       IF \A i \in DOMAIN home.goals : home.goals[i]
                       THEN resetFrog(createObstacles(
                                [home EXCEPT !.level = @ + 1, !.goals = NoGoals], draws))
                       ELSE home)
                  ELSE loseLife(met))
        ELSE loseLife(c)

checkCollisionsFrogger(c, draws) ==
    LET frogRow == c.frog.y \div Mil(CELL_SIZE)
        ride(acc, platform) ==
            IF checkOverlap(acc.c.frog, platform)
            THEN [c |-> [acc.c EXCEPT !.frog.x = @ + platform.speed], onPlatform |-> TRUE]
            ELSE acc
        bite(d, obstacle) == IF checkOverlap(d.frog, obstacle) THEN loseLife(d) ELSE d
        road(d) == IF frogRow >= 8 /\ frogRow <= 12 THEN ForEach(bite, d, d.cars) ELSE d
    IN  IF frogRow = 1 THEN reachGoalRow(c, draws)
        ELSE IF frogRow >= 2 /\ frogRow <= 6
        THEN Then(ForEach(ride, [c |-> c, onPlatform |-> FALSE], c.logs \o c.turtles),
                  LAMBDA rode :
                 IF \/ ~rode.onPlatform \/ rode.c.frog.x < 0
                    \/ rode.c.frog.x > Mil(CANVAS_WIDTH) - Mil(FROG_SIZE)
                 THEN loseLife(rode.c)
                 ELSE road(ForEach(bite, rode.c, rode.c.snakes)))
        ELSE road(c)

\* an obstacle moved by its speed and wrapped around the canvas
Drift(o) ==
    LET x == o.x + o.speed
    IN  [o EXCEPT !.x = IF o.speed > 0 /\ x > Mil(CANVAS_WIDTH) THEN -o.width
                        ELSE IF o.speed < 0 /\ x < -o.width THEN Mil(CANVAS_WIDTH)
                        ELSE x]

\* a snake crawls along its log (lines 226-236)
Crawl(snake, log) ==
    LET localX == snake.localX + snake.speed * snake.direction
        turns == localX <= 0 \/ localX >= log.width - snake.width
    IN  [snake EXCEPT
          !.direction = IF turns THEN -@ ELSE @,
          !.localX = IF turns THEN Max2(0, Min({log.width - snake.width, localX}))
                     ELSE localX,
          !.x = log.x + (IF turns THEN Max2(0, Min({log.width - snake.width, localX}))
                         ELSE localX),
          !.y = log.y,
          !.speed = log.speed]

Tick(gator) ==
    IF gator.timer - 1 <= 0
    THEN [gator EXCEPT !.isActive = ~@,
                       !.timer = IF gator.isActive THEN gator.inactiveTime
                                 ELSE gator.activeTime]
    ELSE [gator EXCEPT !.timer = @ - 1]

\* what update does before it calls checkCollisions (lines 208-249)
moveObstacles(c) ==
    Then([c EXCEPT !.cars = [i \in DOMAIN c.cars |-> Drift(c.cars[i])],
                   !.logs = [i \in DOMAIN c.logs |-> Drift(c.logs[i])],
                   !.turtles = [i \in DOMAIN c.turtles |-> Drift(c.turtles[i])]],
         LAMBDA moved :
        [moved EXCEPT
            !.snakes = [i \in DOMAIN moved.snakes |->
                Crawl(moved.snakes[i], moved.logs[moved.snakes[i].logIndex + 1])],
            !.alligators = [i \in DOMAIN moved.alligators |-> Tick(moved.alligators[i])],
            !.femaleFrog =
                IF moved.femaleFrog = NoFemaleFrog THEN NoFemaleFrog
                ELSE IF moved.femaleFrog.timer - 1 <= 0 THEN NoFemaleFrog
                ELSE [moved.femaleFrog EXCEPT !.timer = @ - 1]])

updateFrogger(c, draws) ==
    IF c.gameOver \/ c.won THEN c
    ELSE Then(moveObstacles(c), LAMBDA aged : checkCollisionsFrogger(aged, draws))

gameLoopFrogger(w, draws) ==
    Then(updateFrogger(w.c, draws), LAMBDA c1 :
        LET handle == FreshHandle(Range(w.pending), c1.animationId)
        IN  [w EXCEPT !.c = [c1 EXCEPT !.animationId = handle],
                      !.pending = Append(@, handle)])

resetGameFrogger(c, draws) ==
    resetFrog(createObstacles(
        [c EXCEPT !.score = 0, !.lives = 3, !.gameOver = FALSE, !.won = FALSE,
                  !.level = 1, !.goals = NoGoals], draws))

handleKeyDownFrogger(c, key, draws) ==
    IF key = "Enter"
    THEN IF c.gameOver \/ c.won THEN resetGameFrogger(c, draws) ELSE c
    ELSE IF key \in {"n", "N"}
    THEN resetFrog(createObstacles([c EXCEPT !.level = @ + 1, !.goals = NoGoals], draws))
    ELSE IF c.gameOver \/ c.won THEN c
    ELSE IF key \in {"ArrowUp", "w", "W"}
    THEN IF c.frog.y > Mil(CELL_SIZE)
         THEN [c EXCEPT !.frog.y = @ - Mil(CELL_SIZE), !.score = @ + 10] ELSE c
    ELSE IF key \in {"ArrowDown", "s", "S"}
    THEN IF c.frog.y < Mil(14 * CELL_SIZE)
         THEN [c EXCEPT !.frog.y = @ + Mil(CELL_SIZE)] ELSE c
    ELSE IF key \in {"ArrowLeft", "a", "A"}
    THEN IF c.frog.x > 0 THEN [c EXCEPT !.frog.x = @ - Mil(CELL_SIZE)] ELSE c
    ELSE IF key \in {"ArrowRight", "d", "D"}
    THEN IF c.frog.x < Mil(CANVAS_WIDTH) - Mil(FROG_SIZE)
         THEN [c EXCEPT !.frog.x = @ + Mil(CELL_SIZE)] ELSE c
    ELSE c

ngOnInitFrogger(window, draws) ==
    gameLoopFrogger([c |-> initGameFrogger(resizeCanvasFrogger(NewFrogger, window), draws),
                     pending |-> <<>>], draws)

ngOnDestroyFrogger(w) ==
    IF w.c.animationId # 0
    THEN [w EXCEPT !.pending = Remove(@, w.c.animationId)]
    ELSE w

(***************************************************************************)
(* The frog-crossing game as a state machine: keys, window resizes,        *)
(* animation frames and the destruction of the component.                  *)
(***************************************************************************)
\* events (keys, resizes, frames) delivered to the frog-crossing game
MaxFroggerSteps == 4

FroggerWorld == [c |-> frogger, pending |-> pending]

SetFroggerWorld(w) ==
    /\ frogger' = w.c
    /\ pending' = w.pending

FroggerKeys == {"Enter", "n", "ArrowUp", "ArrowDown", "ArrowLeft", "d", "p"}
FroggerWindows ==
    {[innerWidth |-> 1400, innerHeight |-> 600], [innerWidth |-> 700, innerHeight |-> 600]}
FroggerDraws ==
    {[timers |-> <<60, 100, 239>>, female |-> FALSE, goal |-> 0],
     [timers |-> <<61, 60, 60>>, female |-> TRUE, goal |-> 9]}
NoDraws == [timers |-> <<60, 60, 60>>, female |-> FALSE, goal |-> 0]

RECURSIVE runFroggerCallbacks(_, _, _)
runFroggerCallbacks(w, batch, draws) ==
    IF batch = <<>> THEN w
    ELSE Then(gameLoopFrogger(w, draws),
              LAMBDA v : runFroggerCallbacks(v, Tail(batch), draws))

FroggerFrameOf(w, draws) ==
    runFroggerCallbacks([w EXCEPT !.pending = <<>>], w.pending, draws)

FreshFrogger(window) == ngOnInitFrogger(window, NoDraws)

\* n presses of ArrowUp
RECURSIVE Hops(_, _)
Hops(w, n) ==
    IF n = 0 THEN w
    ELSE Then([w EXCEPT !.c = handleKeyDownFrogger(@, "ArrowUp", NoDraws)],
              LAMBDA v : Hops(v, n - 1))

\* the frog hopped into the water twice and is in the water again, with no
\* frame since its last hop
LastFrog ==
    Hops(FroggerFrameOf(Hops(FroggerFrameOf(Hops(
        FreshFrogger([innerWidth |-> 1400, innerHeight |-> 600]), 8), NoDraws), 8), NoDraws), 8)

InitFrogger ==
    /\ \E w \in {FreshFrogger(window) : window \in FroggerWindows} \cup {LastFrog} :
          /\ frogger = w.c
          /\ pending = w.pending
    /\ NoDrop /\ NoSnake /\ NoRocks /\ NoBustout /\ NoInvaders
    /\ hung = FALSE /\ now = 0
    /\ lastEvent = [type |-> "ngOnInit", key |-> ""]
    /\ mounted = TRUE
    /\ steps = 0

FroggerKeyDown ==
    /\ mounted
    /\ steps < MaxFroggerSteps
    /\ \E key \in FroggerKeys :
        \E draws \in IF key \in {"Enter", "n"} THEN FroggerDraws ELSE {NoDraws} :
            /\ frogger' = handleKeyDownFrogger(frogger, key, draws)
            /\ lastEvent' = [type |-> "keydown", key |-> key]
    /\ steps' = steps + 1
    /\ UNCHANGED <<pending, now, mounted, OutsideFrogger>>

FroggerResize ==
    /\ mounted
    /\ steps < MaxFroggerSteps
    /\ \E window \in FroggerWindows :
        /\ window.innerWidth * 4 # frogger.style.width
        /\ frogger' = resizeCanvasFrogger(frogger, window)
    /\ lastEvent' = [type |-> "resize", key |-> ""]
    /\ steps' = steps + 1
    /\ UNCHANGED <<pending, now, mounted, OutsideFrogger>>

FroggerFrame ==
    /\ pending # <<>>
    /\ steps < MaxFroggerSteps
    /\ \E draws \in FroggerDraws :
        \E w \in {FroggerFrameOf(FroggerWorld, draws)} :
            SetFroggerWorld(w)
    /\ lastEvent' = [type |-> "frame", key |-> ""]
    /\ steps' = steps + 1
    /\ UNCHANGED <<now, mounted, OutsideFrogger>>

FroggerDestroy ==
    /\ mounted
    /\ steps < MaxFroggerSteps
    /\ SetFroggerWorld(ngOnDestroyFrogger(FroggerWorld))
    /\ mounted' = FALSE
    /\ lastEvent' = [type |-> "ngOnDestroy", key |-> ""]
    /\ steps' = steps + 1
    /\ UNCHANGED <<now, OutsideFrogger>>

NextFrogger == FroggerKeyDown \/ FroggerResize \/ FroggerFrame \/ FroggerDestroy

SpecFrogger == InitFrogger /\ [][NextFrogger]_vars

(***************************************************************************)
(* Claims about the frog-crossing game.                                    *)
(***************************************************************************)
FroggerState(c) ==
    [score |-> c.score, lives |-> c.lives, level |-> c.level, goals |-> c.goals,
     frog |-> [x |-> c.frog.x, y |-> c.frog.y],
     cars |-> c.cars, logs |-> c.logs, turtles |-> c.turtles, snakes |-> c.snakes,
     alligators |-> c.alligators, femaleFrog |-> c.femaleFrog]

\* C12: once gameOver is true, every key press other than Enter and every
\* frame leave score, lives, level, goals, the frog's position and all
\* obstacle collections unchanged.
C12_GameOverFreezesAllButEnter ==
    [][(/\ frogger.gameOver
        /\ \/ lastEvent'.type = "keydown" /\ lastEvent'.key # "Enter"
           \/ lastEvent'.type = "frame")
       => FroggerState(frogger') = FroggerState(frogger)]_vars

\* C24: every frame and every key press that does not call resetGame (Enter
\* with gameOver or won set) leaves score and level at least what they were
\* and lives at most what they were.
C24_ScoreLevelLivesAreMonotone ==
    [][ ~(/\ lastEvent'.type = "keydown" /\ lastEvent'.key = "Enter"
          /\ (frogger.gameOver \/ frogger.won))
        => /\ frogger'.score >= frogger.score
           /\ frogger'.level >= frogger.level
           /\ frogger'.lives <= frogger.lives
      ]_vars

\* C24 witness: a frame has taken the last life in a session in which points
\* were scored
C24_Witness ==
    /\ lastEvent.type = "frame"
    /\ frogger.gameOver
    /\ frogger.lives = 0
    /\ frogger.score > 0

(***************************************************************************)
(* The invader game: src/unnamed/part_000 (AlienInvadersComponent).        *)
(* Positions and sizes are in hundredths of a pixel; scale is in           *)
(* hundredths, so that k * scale pixels is the integer k * c.scale;        *)
(* invaderSpeed is in tenths, since it grows by 0.5.  The canvas size and  *)
(* the times are in pixels and in ms.                                      *)
(***************************************************************************)
baseInvaderSpeed == 12
invaderDropAmount == 16
baseAnimationSpeed == 1000

NewInvaders ==
    [animationFrameId |-> 0, score |-> 0, lives |-> 3, level |-> 1,
     gameOver |-> FALSE, paused |-> FALSE,
     player |-> [x |-> 0, y |-> 0, width |-> Px(26), height |-> Px(16),
                 active |-> TRUE, speed |-> Px(3)],
     invaders |-> <<>>, invaderDirection |-> 1,
     invaderSpeed |-> baseInvaderSpeed * 10, animationCounter |-> 0,
     animationSpeed |-> baseAnimationSpeed,
     motherShip |-> [x |-> Px(-50), y |-> Px(30), width |-> Px(32), height |-> Px(14),
                     active |-> FALSE, direction |-> 1, points |-> 0],
     playerBullets |-> <<>>, invaderBullets |-> <<>>, barriers |-> <<>>,
     keys |-> {}, lastTime |-> 0, invaderShootTimer |-> 0, motherShipTimer |-> 0,
     scale |-> 100, barrierLeftBoundary |-> 0, barrierRightBoundary |-> Px(800),
     canvas |-> [width |-> 0, height |-> 0]]

\* the containers explored make the scale a whole number of hundredths
resizeCanvasInvaders(c, container) ==
    [c EXCEPT !.canvas = [width |-> container.clientWidth,
                          height |-> container.clientHeight],
              !.scale = Min({container.clientWidth \div 8, container.clientHeight \div 6})]

createInvaders(c) ==
    [c EXCEPT !.invaders =
        [n \in 1..55 |->
            LET row == (n - 1) \div 11
                col == (n - 1) % 11
            IN  [x |-> 180 * c.scale + col * 50 * c.scale,
                 y |-> 80 * c.scale + row * 40 * c.scale,
                 width |-> 36 * c.scale, height |-> 24 * c.scale, active |-> TRUE,
                 type |-> IF row = 0 THEN 2 ELSE IF row <= 2 THEN 1 ELSE 0,
                 animFrame |-> 0]]]

createBarriers(c) ==
    LET barrierY == Px(c.canvas.height) - 120 * c.scale
        barrierWidth == 60 * c.scale
        spacing == (Px(c.canvas.width) - barrierWidth * 4) \div 5
    IN  [c EXCEPT
          !.barrierLeftBoundary = 160 * c.scale,
          !.barrierRightBoundary = Px(c.canvas.width) - 160 * c.scale,
          !.barriers =
            [n \in 1..96 |->
                LET i == (n - 1) \div 24
                    row == ((n - 1) % 24) \div 6
                    col == (n - 1) % 6
                IN  [x |-> spacing + i * (barrierWidth + spacing) + col * 10 * c.scale,
                     y |-> barrierY + row * 10 * c.scale,
                     width |-> 10 * c.scale, height |-> 10 * c.scale,
                     active |-> TRUE, health |-> 3]]]

initGameInvaders(c) ==
    Then([c EXCEPT !.player.width = 52 * c.scale, !.player.height = 32 * c.scale,
                   !.player.speed = 3 * c.scale,
                   !.player.x = Px(c.canvas.width) \div 2 - (52 * c.scale) \div 2,
                   !.player.y = Px(c.canvas.height) - 60 * c.scale,
                   !.motherShip.width = 48 * c.scale, !.motherShip.height = 24 * c.scale,
                   !.score = 0, !.lives = 3, !.level = 1,
                   !.invaderSpeed = baseInvaderSpeed * 10,
                   !.animationSpeed = baseAnimationSpeed],
         LAMBDA reset :
             [createBarriers(createInvaders(reset)) EXCEPT
                 !.playerBullets = <<>>, !.invaderBullets = <<>>,
                 !.motherShip.active = FALSE])

\* invaderDirection * invaderSpeed * scale
StepX(c) == (c.invaderDirection * c.invaderSpeed * c.scale) \div 10

\* the probe of lines 399-409
shouldDrop(c) ==
    \E n \in DOMAIN c.invaders :
        /\ c.invaders[n].active
        /\ \/ c.invaders[n].x + StepX(c) <= c.barrierLeftBoundary
           \/ c.invaders[n].x + StepX(c) + c.invaders[n].width >= c.barrierRightBoundary

Dropped_inactiveToo(c, invader) == [invader EXCEPT !.y = @ + invaderDropAmount * c.scale]

\* an invader after the loop of lines 413-422
Dropped(c, invader) ==
    IF invader.active THEN [invader EXCEPT !.y = @ + invaderDropAmount * c.scale]
    ELSE invader

\* lines 412-422: the direction flips, the formation drops and the game is
\* over when an invader that dropped reaches the player
reverseAndDrop(c) ==
    Then([n \in DOMAIN c.invaders |-> Dropped(c, c.invaders[n])], LAMBDA lower :
        [c EXCEPT !.invaderDirection = -@,
                  !.invaders = lower,
                  !.gameOver = IF \E n \in DOMAIN lower :
                                     /\ c.invaders[n].active
                                     /\ lower[n].y + lower[n].height >= c.player.y
                               THEN TRUE ELSE @])

\* lines 426-431
advance(c) ==
    [c EXCEPT !.invaders =
        [n \in DOMAIN c.invaders |->
            IF c.invaders[n].active
            THEN [c.invaders[n] EXCEPT !.x = @ + StepX(c),
                                       !.animFrame = (@ + 1) % 2]
            ELSE c.invaders[n]]]

updateInvaders(c, deltaTime) ==
    IF c.animationCounter + deltaTime > c.animationSpeed
    THEN Then([c EXCEPT !.animationCounter = 0], LAMBDA due :
         Then(IF shouldDrop(due) THEN reverseAndDrop(due) ELSE due, LAMBDA placed :
             advance(placed)))
    ELSE [c EXCEPT !.animationCounter = @ + deltaTime]

\* draws.spawn is Math.random() < 0.01, draws.direction the direction drawn
\* and draws.points the index Math.floor(Math.random() * 4)
updateMotherShip(c, deltaTime, draws) ==
    Then([c EXCEPT !.motherShipTimer = @ + deltaTime], LAMBDA timed :
    Then(IF ~timed.motherShip.active /\ timed.motherShipTimer > 15000 /\ draws.spawn
         THEN [timed EXCEPT
                 !.motherShip.active = TRUE,
                 !.motherShip.direction = draws.direction,
                 !.motherShip.x = IF draws.direction > 0 THEN -50 * timed.scale
                                  ELSE Px(timed.canvas.width) + 50 * timed.scale,
                 !.motherShip.y = 30 * timed.scale,
                 !.motherShip.points = <<50, 100, 150, 300>>[draws.points + 1],
                 !.motherShipTimer = 0]
         ELSE timed, LAMBDA spawned :
        IF spawned.motherShip.active
        THEN LET x == spawned.motherShip.x + spawned.motherShip.direction * 2 * spawned.scale
             IN  [spawned EXCEPT
                    !.motherShip.x = x,
                    !.motherShip.active =
                        ~(x < -100 * spawned.scale
                          \/ x > Px(spawned.canvas.width) + 100 * spawned.scale)]
        ELSE spawned))

updateBulletsInvaders(c) ==
    [c EXCEPT
       !.playerBullets =
           SelectSeq([i \in DOMAIN c.playerBullets |->
                         [c.playerBullets[i] EXCEPT !.y = @ - c.playerBullets[i].speed]],
                     LAMBDA bullet : ~(bullet.y < 0)),
       !.invaderBullets =
           SelectSeq([i \in DOMAIN c.invaderBullets |->
                         [c.invaderBullets[i] EXCEPT !.y = @ + c.invaderBullets[i].speed]],
                     LAMBDA bullet : ~(bullet.y > Px(c.canvas.height)))]

shootPlayerBullet_always(c) ==
    [c EXCEPT !.playerBullets = Append(@,
        [x |-> c.player.x + c.player.width \div 2 - 1 * c.scale, y |-> c.player.y,
         width |-> 2 * c.scale, height |-> 8 * c.scale, active |-> TRUE,
         speed |-> 6 * c.scale])]

shootPlayerBullet(c) ==
    IF Len(c.playerBullets) < 1
    THEN [c EXCEPT !.playerBullets = Append(@,
            [x |-> c.player.x + c.player.width \div 2 - 1 * c.scale, y |-> c.player.y,
             width |-> 2 * c.scale, height |-> 8 * c.scale, active |-> TRUE,
             speed |-> 6 * c.scale])]
    ELSE c

\* the lowest active invader of every 40-pixel column, the first of equally
\* low ones, in the order of the column numbers (Object.values)
getBottomInvaders(c) ==
    LET column(n) == c.invaders[n].x \div Px(40)
        lowest == {n \in DOMAIN c.invaders :
                     /\ c.invaders[n].active
                     /\ \A m \in DOMAIN c.invaders :
                          (c.invaders[m].active /\ column(m) = column(n) /\ m # n)
                          => \/ c.invaders[m].y < c.invaders[n].y
                             \/ c.invaders[m].y = c.invaders[n].y /\ m > n}
        RECURSIVE ordered(_)
        ordered(S) ==
            IF S = {} THEN <<>>
            ELSE LET n == CHOOSE n \in S : \A m \in S : column(n) <= column(m)
                 IN  <<c.invaders[n]>> \o ordered(S \ {n})
    IN  ordered(lowest)

\* draws.shooter is Math.random() in tenths
invaderShoot(c, draws) ==
    Then(getBottomInvaders(c), LAMBDA bottomInvaders :
        IF Len(bottomInvaders) > 0
        THEN LET shooter == bottomInvaders[(draws.shooter * Len(bottomInvaders)) \div 10 + 1]
             IN  [c EXCEPT !.invaderBullets = Append(@,
                    [x |-> shooter.x + shooter.width \div 2, y |-> shooter.y + shooter.height,
                     width |-> 2 * c.scale, height |-> 8 * c.scale, active |-> TRUE,
                     speed |-> 3 * c.scale])]
        ELSE c)

\* mutant of checkCollision: an object whose left edge is on the other's
\* right edge collides with it
checkCollision_touchingCounts(obj1, obj2) ==
    /\ obj1.x <= obj2.x + obj2.width /\ obj1.x + obj1.width > obj2.x
    /\ obj1.y < obj2.y + obj2.height /\ obj1.y + obj1.height > obj2.y

checkCollision(obj1, obj2) ==
    /\ obj1.x < obj2.x + obj2.width /\ obj1.x + obj1.width > obj2.x
    /\ obj1.y < obj2.y + obj2.height /\ obj1.y + obj1.height > obj2.y

addScore(c, invaderType) == [c EXCEPT !.score = @ + <<10, 20, 40>>[invaderType + 1]]

increaseInvaderSpeed(c) ==
    [c EXCEPT !.invaderSpeed = @ + 5, !.animationSpeed = Max2(300, @ - 10)]

\* nextLevel without its last two assignments: the speeds of the finished
\* level, one increment further
nextLevel_keepsKillIncrements(c) ==
    Then(createInvaders([c EXCEPT !.level = @ + 1]), LAMBDA next :
        [next EXCEPT !.invaderSpeed = @ + 5,
                     !.animationSpeed = Max2(10, @ - 2)])

\* lines 624-625 step the speeds of the finished level, lines 627-628 then
\* overwrite them
nextLevel(c) ==
    Then(createInvaders([c EXCEPT !.level = @ + 1]), LAMBDA next :
    Then([next EXCEPT !.invaderSpeed = @ + 5,
                      !.animationSpeed = Max2(10, @ - 2)], LAMBDA stepped :
        [stepped EXCEPT
            !.invaderSpeed = baseInvaderSpeed * 10 + (stepped.level - 1) * 5,
            !.animationSpeed = Max2(10, baseAnimationSpeed - (stepped.level - 1) * 2)]))

firstHit_lastInStorage(hits) == Max(hits)

\* the obstacle that the inner loop reaches first
firstHit(hits) == Min(hits)

\* player bullets against invaders (lines 532-545), from bullet i down
RECURSIVE bulletsVsInvaders(_, _)
bulletsVsInvaders(c, i) ==
    IF i < 1 THEN c
    ELSE Then({n \in DOMAIN c.invaders :
                 c.invaders[n].active /\ checkCollision(c.playerBullets[i], c.invaders[n])},
              LAMBDA hits :
         IF hits = {} THEN bulletsVsInvaders(c, i - 1)
         ELSE Then(increaseInvaderSpeed(addScore(
                       [c EXCEPT !.invaders[firstHit(hits)].active = FALSE,
                                 !.playerBullets = Splice(@, i)],
                       c.invaders[firstHit(hits)].type)),
                   LAMBDA killed : bulletsVsInvaders(killed, i - 1)))

\* player bullets against the mother ship (lines 548-558)
bulletsVsMotherShip(c) ==
    LET hits == {i \in DOMAIN c.playerBullets :
                    checkCollision(c.playerBullets[i], c.motherShip)}
    IN  IF c.motherShip.active /\ hits # {}
        THEN [c EXCEPT !.motherShip.active = FALSE,
                       !.playerBullets = Splice(@, Max(hits)),
                       !.score = @ + c.motherShip.points]
        ELSE c

\* bullets against barriers (lines 561-574 and 593-606), from bullet i down
RECURSIVE bulletsVsBarriers(_, _)
bulletsVsBarriers(s, i) ==
    IF i < 1 THEN s
    ELSE Then({n \in DOMAIN s.barriers :
                 s.barriers[n].active /\ checkCollision(s.bullets[i], s.barriers[n])},
              LAMBDA hits :
         IF hits = {} THEN bulletsVsBarriers(s, i - 1)
         ELSE bulletsVsBarriers(
                 [bullets |-> Splice(s.bullets, i),
                  barriers |-> [s.barriers EXCEPT
                      ![Min(hits)].health = @ - 1,
                      ![Min(hits)].active = ~(s.barriers[Min(hits)].health - 1 <= 0)]],
                 i - 1))

\* invader bullets against the player (lines 577-590)
bulletsVsPlayer(c) ==
    LET hits == {i \in DOMAIN c.invaderBullets :
                    checkCollision(c.invaderBullets[i], c.player)}
    IN  IF hits # {}
        THEN [c EXCEPT !.invaderBullets = Splice(@, Max(hits)),
                       !.lives = @ - 1,
                       !.gameOver = IF c.lives - 1 <= 0 THEN TRUE ELSE @]
        ELSE c

checkCollisionsInvaders(c) ==
    Then(bulletsVsInvaders(c, Len(c.playerBullets)), LAMBDA c1 :
    Then(bulletsVsMotherShip(c1), LAMBDA c2 :
    Then(bulletsVsBarriers([bullets |-> c2.playerBullets, barriers |-> c2.barriers],
                           Len(c2.playerBullets)), LAMBDA s3 :
    Then(bulletsVsPlayer([c2 EXCEPT !.playerBullets = s3.bullets,
                                    !.barriers = s3.barriers]), LAMBDA c4 :
    Then(bulletsVsBarriers([bullets |-> c4.invaderBullets, barriers |-> c4.barriers],
                           Len(c4.invaderBullets)), LAMBDA s5 :
        [c4 EXCEPT !.invaderBullets = s5.bullets, !.barriers = s5.barriers])))))

\* what the claims read of the component
InvadersView(c) ==
    [invaders |-> c.invaders, invaderDirection |-> c.invaderDirection,
     invaderSpeed |-> c.invaderSpeed, scale |-> c.scale,
     barrierLeftBoundary |-> c.barrierLeftBoundary,
     barrierRightBoundary |-> c.barrierRightBoundary,
     animationCounter |-> c.animationCounter, animationSpeed |-> c.animationSpeed,
     player |-> c.player, gameOver |-> c.gameOver,
     playerBullets |-> c.playerBullets, score |-> c.score,
     motherShip |-> c.motherShip, barriers |-> c.barriers]

\* w.trace records the component before and after updateInvaders and
\* before and after checkCollisions
updateInvadersGame(w, deltaTime, draws) ==
    Then(IF "ArrowLeft" \in w.c.keys \/ "a" \in w.c.keys
         THEN [w.c EXCEPT !.player.x = Max2(0, @ - w.c.player.speed)] ELSE w.c,
         LAMBDA left :
    Then(IF "ArrowRight" \in left.keys \/ "d" \in left.keys
         THEN [left EXCEPT !.player.x =
                  Min({Px(left.canvas.width) - left.player.width, @ + left.player.speed})]
         ELSE left, LAMBDA right :
    Then(updateInvaders(right, deltaTime), LAMBDA marched :
    Then(updateBulletsInvaders(updateMotherShip(marched, deltaTime, draws)), LAMBDA aimed :
    Then(checkCollisionsInvaders(aimed), LAMBDA collided :
    Then(IF collided.invaderShootTimer + deltaTime > 1000
         THEN [invaderShoot(collided, draws) EXCEPT !.invaderShootTimer = 0]
         ELSE [collided EXCEPT !.invaderShootTimer = @ + deltaTime], LAMBDA shot :
        [w EXCEPT
           !.c = IF \A n \in DOMAIN shot.invaders : ~shot.invaders[n].active
                 THEN nextLevel(shot) ELSE shot,
           !.trace = <<[deltaTime |-> deltaTime,
                        before |-> InvadersView(right), after |-> InvadersView(marched),
                        aimed |-> InvadersView(aimed),
                        collided |-> InvadersView(collided)]>>]))))))

gameLoopInvaders_ignoresGameOver(w, timestamp, draws) ==
    Then(IF ~w.c.paused
         THEN updateInvadersGame([w EXCEPT !.c.lastTime = timestamp],
                                 timestamp - w.c.lastTime, draws)
         ELSE [w EXCEPT !.c.lastTime = timestamp], LAMBDA w1 :
        LET handle == FreshHandle(Range(w1.pending), w1.c.animationFrameId)
        IN  [w1 EXCEPT !.c.animationFrameId = handle, !.pending = Append(@, handle)])

gameLoopInvaders(w, timestamp, draws) ==
    Then(IF ~w.c.paused /\ ~w.c.gameOver
         THEN updateInvadersGame([w EXCEPT !.c.lastTime = timestamp],
                                 timestamp - w.c.lastTime, draws)
         ELSE [w EXCEPT !.c.lastTime = timestamp], LAMBDA w1 :
        LET handle == FreshHandle(Range(w1.pending), w1.c.animationFrameId)
        IN  [w1 EXCEPT !.c.animationFrameId = handle, !.pending = Append(@, handle)])

handleKeyDownInvaders(c, key) ==
    Then([c EXCEPT !.keys = @ \cup {key}], LAMBDA held :
    Then(IF key = " " /\ ~held.gameOver /\ ~held.paused THEN shootPlayerBullet(held)
         ELSE held, LAMBDA fired :
    Then(IF key \in {"p", "P"} THEN [fired EXCEPT !.paused = ~@] ELSE fired, LAMBDA toggled :
        IF key \in {"r", "R"} /\ toggled.gameOver
        THEN [initGameInvaders(toggled) EXCEPT !.gameOver = FALSE]
        ELSE toggled)))

handleKeyUpInvaders(c, key) == [c EXCEPT !.keys = @ \ {key}]

onResizeInvaders(c, container) == resizeCanvasInvaders(c, container)

\* ngOnInit, and the timer it sets has run: the canvas is found, the game is
\* set up and gameLoop(0) has run
ngOnInitInvaders(container, draws) ==
    gameLoopInvaders([c |-> initGameInvaders(resizeCanvasInvaders(NewInvaders, container)),
                      pending |-> <<>>, trace |-> <<>>], 0, draws)

ngOnDestroyInvaders(w) ==
    IF w.c.animationFrameId # 0
    THEN [w EXCEPT !.pending = Remove(@, w.c.animationFrameId)]
    ELSE w

(***************************************************************************)
(* The invader game as a state machine: keys pressed and released,         *)
(* resizes of the container, animation frames and the destruction of the   *)
(* component.                                                              *)
(***************************************************************************)
\* events (keys, resizes, frames) delivered to the invader game
MaxInvadersSteps == 3

InvadersWorld == [c |-> invaders, pending |-> pending, trace |-> <<>>]

SetInvadersWorld(w) ==
    /\ invaders' = w.c
    /\ pending' = w.pending

InvadersEvent(type, key, w) == [type |-> type, key |-> key, trace |-> w.trace]

InvadersKeys == {" ", "p", "r", "ArrowLeft", "d"}
\* a container of the base size, a wide one and a small one
Containers ==
    {[clientWidth |-> 800, clientHeight |-> 600],
     [clientWidth |-> 1600, clientHeight |-> 600],
     [clientWidth |-> 160, clientHeight |-> 120]}
LargeContainer == [clientWidth |-> 1280, clientHeight |-> 960]
\* ms between two animation frames: a 60 Hz frame, and a slow frame
InvadersGaps == {16, 1001}
InvadersDraws ==
    {[spawn |-> FALSE, direction |-> 1, points |-> 0, shooter |-> 0],
     [spawn |-> TRUE, direction |-> -1, points |-> 3, shooter |-> 9]}
FirstDraws == [spawn |-> FALSE, direction |-> 1, points |-> 0, shooter |-> 0]

\* one animation frame at time timestamp: the callbacks run oldest first
RECURSIVE runInvadersCallbacks(_, _, _, _)
runInvadersCallbacks(w, batch, timestamp, draws) ==
    IF batch = <<>> THEN w
    ELSE Then(gameLoopInvaders(w, timestamp, draws),
              LAMBDA v : runInvadersCallbacks(v, Tail(batch), timestamp, draws))

InvadersFrameOf(w, timestamp, draws) ==
    runInvadersCallbacks([w EXCEPT !.pending = <<>>, !.trace = <<>>],
                         w.pending, timestamp, draws)

\* n frames gap ms apart, the first at time MountTime
RECURSIVE InvadersFrames(_, _, _)
InvadersFrames(w, n, gap) ==
    IF n = 0 THEN w
    ELSE Then(InvadersFrames(w, n - 1, gap), LAMBDA v :
             InvadersFrameOf(v, IF n = 1 THEN MountTime ELSE v.c.lastTime + gap, FirstDraws))

FreshInvaders(container) == ngOnInitInvaders(container, FirstDraws)

\* the player does nothing for 17 slow frames: the formation, which turns
\* at every step in a container of the base size, is one drop from the player
InvadersNearPlayer ==
    InvadersFrames(FreshInvaders([clientWidth |-> 800, clientHeight |-> 600]), 17, 1001)

\* n frames 16 ms apart
RECURSIVE QuickFrames(_, _)
QuickFrames(w, n) ==
    IF n = 0 THEN w
    ELSE Then(QuickFrames(w, n - 1), LAMBDA v :
             InvadersFrameOf(v, v.c.lastTime + 16, FirstDraws))

\* the game starts in the small container and the formation steps n times;
\* then the container grows, which scales the bullets but neither the
\* invaders nor the player, the player shoots and five frames go by
ShotAfterGrowth(n) ==
    Then(InvadersFrames(FreshInvaders([clientWidth |-> 160, clientHeight |-> 120]), n, 1001),
         LAMBDA stepped :
        QuickFrames([stepped EXCEPT !.c = handleKeyDownInvaders(
                         onResizeInvaders(@, LargeContainer), " ")], 5))

\* the bullet is one frame below two invaders of one column
BulletUnderTwo == ShotAfterGrowth(2)

\* the lower of two invaders of one column is shot and the next bullet is
\* one frame below it
BulletUnderDead ==
    Then(QuickFrames(ShotAfterGrowth(1), 1), LAMBDA shot :
        QuickFrames([shot EXCEPT !.c = handleKeyDownInvaders(
                         handleKeyUpInvaders(@, " "), " ")], 5))

InitInvaders ==
    /\ \E w \in {FreshInvaders(container) : container \in Containers}
                \cup {InvadersNearPlayer, BulletUnderTwo, BulletUnderDead} :
          /\ invaders = w.c
          /\ pending = w.pending
          /\ now = Max2(MountTime, w.c.lastTime)
          /\ lastEvent = InvadersEvent("frame", "", w)
    /\ NoDrop /\ NoSnake /\ NoRocks /\ NoBustout /\ NoFrogger
    /\ hung = FALSE
    /\ mounted = TRUE
    /\ steps = 0

InvadersKeyDown ==
    /\ mounted
    /\ steps < MaxInvadersSteps
    /\ \E key \in InvadersKeys :
        /\ invaders' = handleKeyDownInvaders(invaders, key)
        /\ lastEvent' = InvadersEvent("keydown", key, InvadersWorld)
    /\ steps' = steps + 1
    /\ UNCHANGED <<pending, now, mounted, OutsideInvaders>>

\* a key that is down is released
InvadersKeyUp ==
    /\ mounted
    /\ steps < MaxInvadersSteps
    /\ \E key \in invaders.keys :
        /\ invaders' = handleKeyUpInvaders(invaders, key)
        /\ lastEvent' = InvadersEvent("keyup", key, InvadersWorld)
    /\ steps' = steps + 1
    /\ UNCHANGED <<pending, now, mounted, OutsideInvaders>>

InvadersResize ==
    /\ mounted
    /\ steps < MaxInvadersSteps
    /\ \E container \in Containers \cup {LargeContainer} :
        /\ container.clientWidth # invaders.canvas.width
        /\ invaders' = onResizeInvaders(invaders, container)
    /\ lastEvent' = InvadersEvent("resize", "", InvadersWorld)
    /\ steps' = steps + 1
    /\ UNCHANGED <<pending, now, mounted, OutsideInvaders>>

InvadersFrame ==
    /\ pending # <<>>
    /\ steps < MaxInvadersSteps
    /\ \E gap \in InvadersGaps, draws \in InvadersDraws :
        \E w \in {InvadersFrameOf(InvadersWorld, now + gap, draws)} :
            /\ SetInvadersWorld(w)
            /\ now' = now + gap
            /\ lastEvent' = InvadersEvent("frame", "", w)
    /\ steps' = steps + 1
    /\ UNCHANGED <<mounted, OutsideInvaders>>

InvadersDestroy ==
    /\ mounted
    /\ steps < MaxInvadersSteps
    /\ SetInvadersWorld(ngOnDestroyInvaders(InvadersWorld))
    /\ mounted' = FALSE
    /\ lastEvent' = InvadersEvent("ngOnDestroy", "", InvadersWorld)
    /\ steps' = steps + 1
    /\ UNCHANGED <<now, OutsideInvaders>>

NextInvaders ==
    \/ InvadersKeyDown \/ InvadersKeyUp \/ InvadersResize \/ InvadersFrame
    \/ InvadersDestroy

SpecInvaders == InitInvaders /\ [][NextInvaders]_vars

(***************************************************************************)
(* Claims about the invader game.  lastEvent.trace is empty when the frame *)
(* did not run update, and holds one record when it did.                   *)
(***************************************************************************)
Updated == lastEvent.type = "frame" /\ lastEvent.trace # <<>>
Trace == lastEvent.trace[1]

\* the frame ran a formation step
FormationStep ==
    /\ Updated
    /\ Trace.before.animationCounter + Trace.deltaTime > Trace.before.animationSpeed

\* the horizontal step of the formation v: direction * speed * scale
Stride(v) == (v.invaderDirection * v.invaderSpeed * v.scale) \div 10

\* the next horizontal position of some active invader of v reaches or
\* crosses a boundary
Crosses(v) ==
    \E n \in DOMAIN v.invaders :
        /\ v.invaders[n].active
        /\ \/ v.invaders[n].x + Stride(v) <= v.barrierLeftBoundary
           \/ v.invaders[n].x + Stride(v) + v.invaders[n].width >= v.barrierRightBoundary

\* C13: on a formation step where the next horizontal position of some
\* active invader reaches or crosses a boundary, the shared direction is
\* negated once, the y of every active invader grows by exactly
\* invaderDropAmount * scale, and no inactive invader moves.
C13_ReversingStepDropsEachActiveInvaderOnce ==
    (FormationStep /\ Crosses(Trace.before)) =>
        /\ Trace.after.invaderDirection = -Trace.before.invaderDirection
        /\ \A n \in DOMAIN Trace.before.invaders :
             IF Trace.before.invaders[n].active
             THEN Trace.after.invaders[n].y
                  = Trace.before.invaders[n].y + invaderDropAmount * Trace.before.scale
             ELSE Trace.after.invaders[n] = Trace.before.invaders[n]

\* a reversing step of a formation that has an inactive invader
C13_Witness ==
    /\ steps > 0
    /\ FormationStep /\ Crosses(Trace.before)
    /\ \E n \in DOMAIN Trace.before.invaders : ~Trace.before.invaders[n].active
    /\ \E n \in DOMAIN Trace.before.invaders : Trace.before.invaders[n].active

\* C14: on a reversing step no invader's x changes and no animation frame
\* toggles; on a formation step without a crossing every active invader
\* advances by direction * speed * scale and toggles its animation frame.
C14_ReverseAndAdvanceAreAlternatives ==
    FormationStep =>
        \A n \in DOMAIN Trace.before.invaders :
            IF Crosses(Trace.before)
            THEN /\ Trace.after.invaders[n].x = Trace.before.invaders[n].x
                 /\ Trace.after.invaders[n].animFrame = Trace.before.invaders[n].animFrame
            ELSE Trace.before.invaders[n].active =>
                 /\ Trace.after.invaders[n].x
                    = Trace.before.invaders[n].x + Stride(Trace.before)
                 /\ Trace.after.invaders[n].animFrame
                    = 1 - Trace.before.invaders[n].animFrame

\* what a frame's update may change
InvadersGame(c) == [c EXCEPT !.lastTime = 0, !.animationFrameId = 0]

\* C15: when, after a drop, the bottom edge of some active invader is at or
\* below the player's y, gameOver is true at the end of that step; and no
\* frame runs update while gameOver is true.
C15_ReachingThePlayerEndsTheGame ==
    /\ []((/\ FormationStep /\ Crosses(Trace.before)
           /\ \E n \in DOMAIN Trace.after.invaders :
                /\ Trace.after.invaders[n].active
                /\ Trace.after.invaders[n].y + Trace.after.invaders[n].height
                   >= Trace.after.player.y)
          => invaders.gameOver)
    /\ [][(invaders.gameOver /\ lastEvent'.type = "frame")
          => /\ lastEvent'.trace = <<>>
             /\ InvadersGame(invaders') = InvadersGame(invaders)]_vars

\* the formation reached the player, the game is over, and the frame that
\* came next ran no update
C15_Witness ==
    /\ steps >= 2
    /\ invaders.gameOver /\ invaders.lives = 3
    /\ \E n \in DOMAIN invaders.invaders :
         /\ invaders.invaders[n].active
         /\ invaders.invaders[n].y + invaders.invaders[n].height >= invaders.player.y
    /\ lastEvent.type = "frame" /\ lastEvent.trace = <<>>

\* the active invaders of v that its last player bullet overlaps
Overlapping(v) ==
    {n \in DOMAIN v.invaders :
        LET bullet == v.playerBullets[Len(v.playerBullets)]
            invader == v.invaders[n]
        IN  /\ invader.active
            /\ bullet.x < invader.x + invader.width /\ bullet.x + bullet.width > invader.x
            /\ bullet.y < invader.y + invader.height /\ bullet.y + bullet.height > invader.y}

\* points of an invader of the given type
InvaderPoints(type) == IF type = 2 THEN 40 ELSE IF type = 1 THEN 20 ELSE 10

\* C16: when the player bullet overlaps active invaders in a step, exactly
\* one invader is deactivated, the first overlapping one in storage order,
\* the bullet is removed and the score rises by that invader's points only;
\* a bullet that overlaps no active invader deactivates none.
C16_BulletKillsFirstOverlappingInvader ==
    (Updated /\ Trace.aimed.playerBullets # <<>>) =>
        LET hits == Overlapping(Trace.aimed)
            first == CHOOSE n \in hits : \A m \in hits : n <= m
        IN  IF hits # {}
            THEN /\ Trace.collided.invaders =
                      [Trace.aimed.invaders EXCEPT ![first].active = FALSE]
                 /\ Trace.collided.playerBullets = <<>>
                 /\ Trace.collided.score
                    = Trace.aimed.score + InvaderPoints(Trace.aimed.invaders[first].type)
            ELSE Trace.collided.invaders = Trace.aimed.invaders

\* the bullet overlapped two active invaders in one step
C16_Witness ==
    /\ steps > 0
    /\ Updated /\ Trace.aimed.playerBullets # <<>>
    /\ Cardinality(Overlapping(Trace.aimed)) >= 2

\* the player bullet one frame later (updateBullets)
Risen(bullet) == [bullet EXCEPT !.y = @ - bullet.speed]

\* the last player bullet of v overlaps something checkCollisions lets it
\* hit: an active invader, the active mother ship or an active barrier segment
HitsSomething(v) ==
    LET bullet == v.playerBullets[Len(v.playerBullets)]
    IN  \/ Overlapping(v) # {}
        \/ v.motherShip.active /\ checkCollision(bullet, v.motherShip)
        \/ \E n \in DOMAIN v.barriers :
              v.barriers[n].active /\ checkCollision(bullet, v.barriers[n])

\* the step is a frame that ran update, and the bullet that was in flight
\* either rose, or left the top of the screen, or hit something
BulletFlies ==
    /\ Updated'
    /\ LET bullet == Risen(invaders.playerBullets[1])
       IN  \/ invaders'.playerBullets = <<bullet>>
           \/ /\ invaders'.playerBullets = <<>>
              /\ \/ bullet.y < 0
                 \/ /\ Trace'.aimed.playerBullets = <<bullet>>
                    /\ HitsSomething(Trace'.aimed)

\* the step is the restart key on the game-over screen
Restarts ==
    /\ invaders.gameOver /\ ~invaders'.gameOver
    /\ lastEvent'.type = "keydown" /\ lastEvent'.key \in {"r", "R"}

Overlapped(d) ==
    {j \in DOMAIN d.before :
        checkCircleCollision(d.by[1].bullet.pos, 2, d.before[j].pos, d.before[j].radius)}

\* C17: bullets are tested in reverse insertion order; when a bullet
\* overlaps several asteroids in a step, the asteroid earliest in storage
\* order is the one destroyed, and the bullet is removed after that single
\* hit and destroys no second asteroid.
C17_BulletDestroysEarliestOverlappingAsteroid ==
    LET shots == SelectSeq(lastEvent.destroyed, LAMBDA d : d.by # <<>>)
    IN  /\ \A k \in DOMAIN shots :
             /\ shots[k].index = Min(Overlapped(shots[k]))
             /\ \A m \in DOMAIN shots :
                  k < m => shots[k].by[1].index > shots[m].by[1].index
        /\ \A k \in DOMAIN shots :
             \A i \in DOMAIN spaceRocks.bullets :
                 spaceRocks.bullets[i] # shots[k].by[1].bullet

\* the sum of f over the elements of a sequence
RECURSIVE SumOver(_, _)
SumOver(f(_), q) == IF q = <<>> THEN 0 ELSE f(Head(q)) + SumOver(f, Tail(q))

\* destructions it takes to clear an asteroid with all its pieces, and what
\* they add to the score at 20, 50 and 100 a destruction
Need(asteroid) ==
    CASE asteroid.size = "large" -> 7 [] asteroid.size = "medium" -> 3
      [] asteroid.size = "small" -> 1
Worth(asteroid) ==
    CASE asteroid.size = "large" -> 520 [] asteroid.size = "medium" -> 250
      [] asteroid.size = "small" -> 100
Tier(asteroid) ==
    CASE asteroid.size = "large" -> 20 [] asteroid.size = "medium" -> 50
      [] asteroid.size = "small" -> 100

\* the large asteroids of the wave of a level, createAsteroids(4) and then
\* createAsteroids(4 + level), and of the waves up to a level
WaveOf(level) == IF level <= 1 THEN 4 ELSE 4 + level
RECURSIVE LargeUpTo(_)
LargeUpTo(level) == IF level <= 1 THEN 4 ELSE LargeUpTo(level - 1) + WaveOf(level)

\* C22: every destruction, by a bullet or by the ship, adds 20 for a large,
\* 50 for a medium and 100 for a small asteroid and brings the wave one
\* destruction nearer to its end; the score and the 520 points per large
\* asteroid (7 destructions) still to be made of the asteroids left add up to
\* 520 times the number of large asteroids of the waves so far, so that a
\* wave of k large asteroids is cleared by 7k destructions that add 520k.
C22_DestructionsScoreBySize ==
    /\ \A k \in DOMAIN lastEvent.destroyed :
         LET d == lastEvent.destroyed[k]
         IN  /\ d.scored = Tier(d.before[d.index])
             /\ SumOver(Need, d.after) = SumOver(Need, d.before) - 1
             /\ SumOver(Worth, d.after) = SumOver(Worth, d.before) - d.scored
    /\ ~hung => /\ spaceRocks.score + SumOver(Worth, spaceRocks.asteroids)
                     = 520 * LargeUpTo(spaceRocks.level)
                /\ SumOver(Need, spaceRocks.asteroids)
                     <= 7 * WaveOf(spaceRocks.level)

\* C22 witness: a bullet has destroyed the last asteroid of the first wave of
\* four: the score is 2080 and the second wave of six is there
C22_Witness ==
    /\ lastEvent.type = "frame"
    /\ lastEvent.destroyed # <<>>
    /\ lastEvent.destroyed[Len(lastEvent.destroyed)].by # <<>>
    /\ lastEvent.destroyed[Len(lastEvent.destroyed)].after = <<>>
    /\ spaceRocks.level = 2
    /\ spaceRocks.score = 2080
    /\ Len(spaceRocks.asteroids) = 6

(***************************************************************************)
(* The shoot key on its own: it is pressed, held (the keyboard delivers    *)
(* keydown again and again while it is down), released, and frames pass.   *)
(* lastEvent counts the bullets created since the key went down.           *)
(***************************************************************************)
MaxShootSteps == 4

ShootKeys == {" ", "p"}

\* bullets appended by a handler that turned bullets `before` into `after`
Created(before, after) == IF Len(after) > Len(before) THEN Len(after) - Len(before) ELSE 0

InitShoot ==
    /\ \E w \in {FreshRocks(window, Draws0) : window \in RocksWindows} :
          /\ spaceRocks = w.c
          /\ pending = w.pending
          /\ now = w.now
          /\ hung = w.hung
    /\ lastEvent = [type |-> "mount", key |-> "", held |-> 0, byFrame |-> 0]
    /\ NoDrop /\ NoSnake /\ NoArcade
    /\ mounted = TRUE
    /\ steps = 0

\* keydown: the first of a press when the key was up, a repeat when it is down
ShootKeyDown ==
    /\ mounted /\ ~hung
    /\ steps < MaxShootSteps
    /\ \E key \in ShootKeys :
        \E w \in {handleKeyDownRocks(RocksWorld, key, Draws0)} :
            /\ SetRocksWorld(w)
            /\ lastEvent' =
                 [type |-> "keydown", key |-> key,
                  held |-> IF key # " " THEN lastEvent.held
                           ELSE IF " " \in spaceRocks.keys
                           THEN lastEvent.held + Created(spaceRocks.bullets, w.c.bullets)
                           ELSE Created(spaceRocks.bullets, w.c.bullets),
                  byFrame |-> 0]
    /\ steps' = steps + 1
    /\ UNCHANGED <<mounted, OutsideRocks>>

ShootKeyUp ==
    /\ mounted /\ ~hung
    /\ steps < MaxShootSteps
    /\ \E key \in ShootKeys :
        /\ toLowerCase(key) \in spaceRocks.keys
        /\ spaceRocks' = handleKeyUp(spaceRocks, key)
        /\ lastEvent' = [type |-> "keyup", key |-> key,
                         held |-> IF key = " " THEN 0 ELSE lastEvent.held,
                         byFrame |-> 0]
    /\ steps' = steps + 1
    /\ UNCHANGED <<pending, now, hung, mounted, OutsideRocks>>

ShootFrame ==
    /\ pending # <<>> /\ ~hung
    /\ steps < MaxShootSteps
    /\ \E gap \in RocksGaps :
        \E w \in {RocksFrameOf(RocksWorld, gap, Draws0)} :
            /\ SetRocksWorld(w)
            /\ lastEvent' = [type |-> "frame", key |-> "",
                             held |-> lastEvent.held,
                             byFrame |-> Created(spaceRocks.bullets, w.c.bullets)]
    /\ steps' = steps + 1
    /\ UNCHANGED <<mounted, OutsideRocks>>

NextShoot == ShootKeyDown \/ ShootKeyUp \/ ShootFrame

SpecShoot == InitShoot /\ [][NextShoot]_vars

\* C23: between a keydown of the shoot key that found the key up and the
\* next keyup of the key at most one bullet is created, however often
\* keydown is delivered while the key is down, and no frame creates a bullet.
C23_OneBulletPerKeyPress ==
    /\ lastEvent.held <= 1
    /\ lastEvent.byFrame = 0

\* no frame creates a bullet
C23_FramesCreateNoBullet == lastEvent.byFrame = 0

\* the names in keys that turn the ship or make it thrust
SteeringKeys == {"arrowleft", "a", "arrowright", "d", "arrowup", "w"}

\* the ship is at rest inside the canvas and nothing steers it
ShipAtRest(c) ==
    /\ c.ship.vel = [x |-> 0, y |-> 0]
    /\ 0 <= c.ship.pos.x /\ c.ship.pos.x <= Px(c.canvas.width)
    /\ 0 <= c.ship.pos.y /\ c.ship.pos.y <= Px(c.canvas.height)
    /\ c.keys \cap SteeringKeys = {}

\* C27: a frame that finds the ship at rest inside the canvas with no turn or
\* thrust key down, and in which no asteroid hits the ship, leaves the
\* ship's position, velocity and angle exactly as they were; so does any
\* number of such frames in a row.
C27_ShipAtRestStays ==
    [][ (/\ lastEvent'.type = "frame"
         /\ ShipAtRest(spaceRocks)
         /\ spaceRocks'.lives = spaceRocks.lives)
        => /\ spaceRocks'.ship.pos = spaceRocks.ship.pos
           /\ spaceRocks'.ship.vel = spaceRocks.ship.vel
           /\ spaceRocks'.ship.angle = spaceRocks.ship.angle
      ]_vars

\* C27 witness: four frames of 16 ms have updated the game since it was
\* mounted and the ship is where initGame put it, at rest
C27_Witness ==
    /\ lastEvent.type = "frame"
    /\ now = MountTime + 4 * 16
    /\ ~spaceRocks.paused /\ ~spaceRocks.gameOver
    /\ ShipAtRest(spaceRocks)
    /\ spaceRocks.lives = 3
    /\ spaceRocks.ship.pos = [x |-> Px(spaceRocks.canvas.width) \div 2,
                              y |-> Px(spaceRocks.canvas.height) \div 2]
    /\ spaceRocks.ship.angle = -1571
    /\ Len(spaceRocks.asteroids) = 4

(***************************************************************************)
(* Further claims about the falling-piece game.                            *)
(***************************************************************************)
\* the offsets rotate() tries after the unchanged position
KickOffsets == {<<-1, 0>>, <<1, 0>>, <<-2, 0>>, <<2, 0>>, <<0, -1>>}

\* pattern is invalid at the piece's position moved by (dx, dy)
InvalidAt(c, dx, dy, pattern) ==
    ~isValidMove(c.board, c.currentPosition.x + dx, c.currentPosition.y + dy, pattern)

\* the rotated pattern fits neither at the piece's position nor at any kick
NoRoomToRotate(c) ==
    LET rotated == rotatePattern(c.currentPiece.pattern)
    IN  /\ InvalidAt(c, 0, 0, rotated)
        /\ \A k \in KickOffsets : InvalidAt(c, k[1], k[2], rotated)

\* the fields an invalid attempt must leave alone besides the piece
Standing(c) ==
    [board |-> c.board, score |-> c.score, lines |-> c.lines, level |-> c.level,
     nextPiece |-> c.nextPiece]

\* C18: a key press that finds the game running and asks for a rotation with
\* the rotated pattern invalid at the piece's position and at all five kick
\* offsets leaves pattern and position unchanged; a left or right key press
\* whose target placement is invalid leaves the position (and the pattern)
\* unchanged; in these cases board, score, lines, level and next piece are
\* unchanged too.
C18_InvalidAttemptChangesNothing ==
    [][ (/\ lastEvent'.type = "keydown"
         /\ ~shapeDrop.gameOver
         /\ ~shapeDrop.paused
         /\ \/ lastEvent'.key = "ArrowUp" /\ NoRoomToRotate(shapeDrop)
            \/ /\ lastEvent'.key = "ArrowLeft"
               /\ InvalidAt(shapeDrop, -1, 0, shapeDrop.currentPiece.pattern)
            \/ /\ lastEvent'.key = "ArrowRight"
               /\ InvalidAt(shapeDrop, 1, 0, shapeDrop.currentPiece.pattern))
        => /\ shapeDrop'.currentPiece = shapeDrop.currentPiece
           /\ shapeDrop'.currentPosition = shapeDrop.currentPosition
           /\ Standing(shapeDrop') = Standing(shapeDrop)
      ]_vars

\* C18 witness: a rotate key press found the game running and a piece whose
\* rotated pattern differs from its pattern and fits at none of the six
\* placements; the piece is where it was
C18_Witness ==
    /\ lastEvent.type = "keydown"
    /\ lastEvent.key = "ArrowUp"
    /\ ~lastEvent.before.gameOver
    /\ ~lastEvent.before.paused
    /\ rotatePattern(shapeDrop.currentPiece.pattern) # shapeDrop.currentPiece.pattern
    /\ NoRoomToRotate(shapeDrop)
    /\ shapeDrop.currentPosition.x = lastEvent.before.x
    /\ shapeDrop.currentPosition.y = lastEvent.before.y

(***************************************************************************)
(* rotatePattern() on its own: every square pattern of 0 and 1 of the      *)
(* sizes the piece templates have, rotated again and again.  The pattern   *)
(* passed in is only read (lines 383-384 write rotated[col][size-1-row],   *)
(* an array made by the call with a new array for each row), so the array  *)
(* the caller holds has after the call the value it had before.            *)
(***************************************************************************)
PatternSizes == {2, 3, 4}

MaxTurns == 4

SquarePatterns(size) == [1..size -> [1..size -> {0, 1}]]

Templates == {SHAPES[i].pattern : i \in DOMAIN SHAPES}

InitRotate ==
    /\ \E size \in PatternSizes :
         \E pattern \in SquarePatterns(size) :
           /\ shapeDrop = [NewShapeDrop EXCEPT !.currentPiece.pattern = pattern]
           /\ lastEvent = [type |-> "pattern", original |-> pattern, turns |-> 0]
    /\ pending = <<>>
    /\ loopCalls = <<NoCall, NoCall>>
    /\ NoSnake /\ NoRocks /\ NoArcade /\ hung = FALSE
    /\ now = 0
    /\ mounted = TRUE
    /\ steps = 0

\* const rotated = this.rotatePattern(pattern), then rotated is the pattern
\* of the next call
CallRotatePattern ==
    /\ lastEvent.type \in {"pattern", "rotatePattern"}
    /\ lastEvent.turns < MaxTurns
    /\ LET pattern == shapeDrop.currentPiece.pattern
           rotated == rotatePattern(pattern)
       IN  /\ shapeDrop' = [shapeDrop EXCEPT !.currentPiece.pattern = rotated]
           /\ lastEvent' = [type |-> "rotatePattern",
                            original |-> lastEvent.original,
                            turns |-> lastEvent.turns + 1,
                            before |-> pattern,
                            pattern |-> pattern,
                            rotated |-> rotated]
    /\ UNCHANGED <<pending, loopCalls, now, mounted, steps, OutsideDrop>>

NextRotate == CallRotatePattern

SpecRotate == InitRotate /\ [][NextRotate]_vars

\* C19: rotatePattern returns an N x N pattern whose cell (col, N-1-row) is
\* cell (row, col) of the pattern passed in, for every square pattern of 0
\* and 1 of size 2, 3 and 4; the pattern passed in is the same after the
\* call; the fourth application in a row returns the first pattern.
C19_RotatePatternTurnsClockwise ==
    lastEvent.type = "rotatePattern" =>
        LET N == Len(lastEvent.before)
        IN  /\ Len(lastEvent.rotated) = N
            /\ \A r \in 1..N : Len(lastEvent.rotated[r]) = N
            /\ \A row \in 0..(N - 1) : \A col \in 0..(N - 1) :
                   lastEvent.rotated[col + 1][(N - 1 - row) + 1]
                       = lastEvent.before[row + 1][col + 1]
            /\ lastEvent.pattern = lastEvent.before
            /\ lastEvent.turns % 4 = 0 => lastEvent.rotated = lastEvent.original

\* C19 witness: the fourth rotation in a row of the I template, which one
\* rotation changes
C19_Witness ==
    /\ lastEvent.type = "rotatePattern"
    /\ lastEvent.turns = 4
    /\ lastEvent.original = SHAPES[1].pattern
    /\ rotatePattern(lastEvent.original) # lastEvent.original
    /\ lastEvent.rotated = lastEvent.original

(***************************************************************************)
(* Locks late in a session: the score, lines and level are those of a      *)
(* session in which single lines were cleared, the board has its bottom    *)
(* rows full but for the last column, and the falling piece has been       *)
(* rotated, moved to the right wall and lowered to the stack.              *)
(***************************************************************************)
\* the bottom k rows full but for the last column
WellRows(k) ==
    [r \in 1..ROWS |-> [col \in 1..COLS |->
        IF r - 1 >= ROWS - k /\ col - 1 < COLS - 1 THEN ((r + col) % 7) + 1 ELSE 0]]

\* the bottom row full but for the last two columns, and an O piece that
\* fills them
OneRowToClear(c) ==
    [c EXCEPT !.board = [r \in 1..ROWS |-> [col \in 1..COLS |->
                            IF r = ROWS /\ col - 1 < COLS - 2 THEN 2 ELSE 0]],
              !.currentPiece = SHAPES[2],
              !.currentPosition = [x |-> COLS - 2, y |-> ROWS - 2]]

\* n locks that clear one line each
RECURSIVE Singles(_, _)
Singles(c, n) ==
    IF n = 0 THEN c
    ELSE Then(lockPiece(OneRowToClear(c), 2), LAMBDA d : Singles(d, n - 1))

RECURSIVE Repeat(_, _, _)
Repeat(F(_), n, c) == IF n = 0 THEN c ELSE Then(F(c), LAMBDA d : Repeat(F, n - 1, d))

\* moveDown() until the piece is `above` rows over the row it rests in
RECURSIVE Lowered(_, _)
Lowered(c, above) ==
    IF isValidMove(c.board, c.currentPosition.x, c.currentPosition.y + 1 + above,
                   c.currentPiece.pattern)
    THEN Then(moveDown(c, 2), LAMBDA d : Lowered(d, above))
    ELSE c

\* lines cleared earlier in the session, full rows on the board, shapes of
\* the falling piece (I, T), rows left to fall
LinesBefore == {0, 9, 18}
RowsReady == 0..4
LockShapes == {1, 3}
RowsAbove == {0, 1}

AboutToLock(cleared, k, shape, next, above) ==
    Then(spawnPiece([Singles(initGame(NewShapeDrop, shape, shape), cleared) EXCEPT
                         !.board = WellRows(k),
                         !.nextPiece = createRandomPiece(shape)], next),
         LAMBDA c : Lowered(Repeat(moveRight, COLS, rotate(c)), above))

InitLock ==
    /\ \E cleared \in LinesBefore, k \in RowsReady, shape \in LockShapes,
          next \in PieceDraws, above \in RowsAbove :
         LET w == ngOnInit(next, next, next)
         IN  /\ shapeDrop = [AboutToLock(cleared, k, shape, next, above) EXCEPT
                                 !.animationFrameId = w.c.animationFrameId,
                                 !.lastTime = MountTime]
             /\ pending = w.pending
             /\ loopCalls = <<[timestamp |-> MountTime - 16, paused |-> FALSE,
                               deltaTime |-> 16],
                              [timestamp |-> MountTime, paused |-> FALSE,
                               deltaTime |-> 16]>>
    /\ NoSnake /\ NoRocks /\ NoArcade /\ hung = FALSE
    /\ now = MountTime
    /\ mounted = TRUE
    /\ lastEvent = [type |-> "mount", key |-> "", before |-> Before(NewShapeDrop)]
    /\ steps = 0

MaxLockSteps == 2

\* window:keydown, as KeyDown, for the first MaxLockSteps events
LockKey ==
    /\ mounted
    /\ steps < MaxLockSteps
    /\ \E key \in DropKeys :
         \E index \in DrawsFor(key) :
           /\ shapeDrop' = handleKeyDown(shapeDrop, key, index)
           /\ lastEvent' = Event("keydown", key)
    /\ steps' = steps + 1
    /\ UNCHANGED <<pending, loopCalls, now, mounted, OutsideDrop>>

\* an animation frame, as AnimationFrame, for the first MaxLockSteps events
LockFrame ==
    /\ pending # <<>>
    /\ steps < MaxLockSteps
    /\ \E gap \in FrameGaps, index \in PieceDraws :
           /\ now' = now + gap
           /\ SetDropWorld(runCallbacks([DropWorld EXCEPT !.pending = <<>>],
                                        pending, now + gap, index))
    /\ lastEvent' = Event("frame", "")
    /\ steps' = steps + 1
    /\ UNCHANGED <<mounted, OutsideDrop>>

\* the template's restart button, as ClickRestart, for the first
\* MaxLockSteps events
LockRestart ==
    /\ mounted
    /\ steps < MaxLockSteps
    /\ \E d \in ClickDelays, first \in PieceDraws, second \in PieceDraws :
           /\ now' = now + d
           /\ SetDropWorld(restart(DropWorld, now + d, first, second, second))
    /\ lastEvent' = Event("restart", "")
    /\ steps' = steps + 1
    /\ UNCHANGED <<mounted, OutsideDrop>>

NextLock == LockKey \/ LockFrame \/ LockRestart

SpecLock == InitLock /\ [][NextLock]_vars

\* the piece cannot go one row down: moveDown() locks it
Rests(c) == InvalidAt(c, 0, 1, c.currentPiece.pattern)

\* the number of rows the piece can fall
Fall(c) ==
    CHOOSE d \in 0..ROWS :
        /\ \A e \in 1..d : ~InvalidAt(c, 0, e, c.currentPiece.pattern)
        /\ InvalidAt(c, 0, d + 1, c.currentPiece.pattern)

\* the rows that are full once the piece is written into the board where it is
LinesAt(c) == Cardinality(FullRows(PieceOnBoard(c)))

LinePoints(n) ==
    CASE n = 0 -> 0 [] n = 1 -> 100 [] n = 2 -> 300 [] n = 3 -> 500 [] n = 4 -> 800

\* what a lock of the piece where it is adds to the score
LockAdds(c) == LinePoints(LinesAt(c)) * c.level

\* C20: while the game runs, a lock that clears n lines adds LinePoints(n)
\* times the level before the lock to the score and a lock that clears no
\* line adds nothing: a down key or a frame whose update drops the piece
\* changes the score by that amount when the piece rests and by 0 when it
\* falls one row; a hard drop adds two points per row fallen besides.
C20_LockScoresLinesAtLevelBefore ==
    [][ (~shapeDrop.gameOver /\ ~shapeDrop.paused)
        => /\ (lastEvent'.type = "keydown" /\ lastEvent'.key = "ArrowDown")
                => /\ Rests(shapeDrop)
                        => shapeDrop'.score = shapeDrop.score + LockAdds(shapeDrop)
                   /\ Rests(shapeDrop) /\ LinesAt(shapeDrop) = 0
                        => shapeDrop'.score = shapeDrop.score
                   /\ ~Rests(shapeDrop) => shapeDrop'.score = shapeDrop.score
           /\ (lastEvent'.type = "keydown" /\ lastEvent'.key = " ")
                => LET d == Fall(shapeDrop)
                       landed == [shapeDrop EXCEPT !.currentPosition.y = @ + d]
                   IN  shapeDrop'.score = shapeDrop.score + 2 * d + LockAdds(landed)
           /\ (lastEvent'.type = "frame" /\ Len(pending) = 1)
                => LET deltaTime == now' - shapeDrop.lastTime
                   IN  shapeDrop'.score = shapeDrop.score +
                         (IF /\ shapeDrop.dropCounter + deltaTime > shapeDrop.dropInterval
                             /\ Rests(shapeDrop)
                          THEN LockAdds(shapeDrop) ELSE 0)
      ]_vars

\* C20 witness: a down key has locked a piece that cleared four lines after
\* nine; the level is 2 and the 800 points were counted once, at level 1
C20_Witness ==
    /\ lastEvent.type = "keydown"
    /\ lastEvent.key = "ArrowDown"
    /\ ~lastEvent.before.gameOver
    /\ ~lastEvent.before.paused
    /\ shapeDrop.lines = 13
    /\ shapeDrop.level = 2
    /\ shapeDrop.score = 900 + 800

\* C21: in every state of the falling-piece game level is floor(lines / 10)
\* + 1 and dropInterval is max(100, 1000 - 100 * (level - 1)), after locks
\* that clear one or several lines and after restart.
C21_LevelAndDropIntervalFollowLines ==
    /\ shapeDrop.level = (shapeDrop.lines \div 10) + 1
    /\ shapeDrop.dropInterval =
           (IF 1000 - 100 * (shapeDrop.level - 1) > 100
            THEN 1000 - 100 * (shapeDrop.level - 1) ELSE 100)

\* C21 witness: a down key has locked a piece that cleared four lines at
\* once after eighteen; the level went from 2 to 3
C21_Witness ==
    /\ lastEvent.type = "keydown"
    /\ lastEvent.key = "ArrowDown"
    /\ shapeDrop.lines = 22
    /\ shapeDrop.level = 3
    /\ shapeDrop.dropInterval = 800

\* the cells the current piece occupies, as <<column, row>>
PieceCells(c) ==
    {<<c.currentPosition.x + col, c.currentPosition.y + row>> :
        <<row, col>> \in
            {rc \in (0..3) \X (0..3) :
                /\ rc[1] < Len(c.currentPiece.pattern)
                /\ rc[2] < Len(c.currentPiece.pattern[rc[1] + 1])
                /\ c.currentPiece.pattern[rc[1] + 1][rc[2] + 1] # 0}}

\* C32: while the game is not over, every cell of the current piece is in a
\* column 0..9 and a row below 20 and, when its row is on the board, on an
\* empty cell of the board.
C32_CurrentPieceIsValid ==
    ~shapeDrop.gameOver =>
        \A cell \in PieceCells(shapeDrop) :
            /\ 0 <= cell[1] /\ cell[1] < COLS /\ cell[2] < ROWS
            /\ cell[2] >= 0 => shapeDrop.board[cell[2] + 1][cell[1] + 1] = 0

\* C32 witness: a hard drop locked a piece onto a stack and the piece that
\* was spawned stands right above settled cells
C32_Witness ==
    /\ lastEvent.type = "keydown" /\ lastEvent.key = " "
    /\ ~shapeDrop.gameOver
    /\ shapeDrop.currentPosition.y = 0
    /\ \E cell \in PieceCells(shapeDrop) :
          cell[2] + 1 < ROWS /\ shapeDrop.board[cell[2] + 2][cell[1] + 1] # 0

\* C33: restart() after a game over leaves the piece it spawned in the spawn
\* row, however long ago the last frame was.
C33_RestartBeginsTimingAfresh ==
    lastEvent.type = "restart" /\ lastEvent.before.gameOver
        => shapeDrop.currentPosition.y = 0

\* restart() after a game over spawns on the empty board and requests a frame
C33_RestartSpawnsOnEmptyBoard ==
    lastEvent.type = "restart" /\ lastEvent.before.gameOver
        => /\ shapeDrop.board = EmptyBoard /\ ~shapeDrop.gameOver
           /\ shapeDrop.currentPosition.y \in {0, 1}
           /\ pending # <<>>

(***************************************************************************)
(* Further claims about the snake game.                                    *)
(***************************************************************************)
\* the high score the stored item stands for
Stored(item) == IF item = NoItem THEN 0 ELSE parseInt(item)

\* the game ends in this step
SnakeGameEnds == snakeGame.gameState # "GAME_OVER" /\ snakeGame'.gameState = "GAME_OVER"

\* C25: the stored high score is what highScore starts from; the stored item
\* changes only in a step that ends a game whose final score is greater than
\* the stored high score, and then to that score; highScore never decreases
\* and is at least the final score after every game end.
C25_HighScoreWrittenOnlyByBetterGameEnd ==
    /\ [](lastEvent.type = "ngOnInit" => snakeGame.highScore = Stored(localStorage))
    /\ [][ /\ localStorage' # localStorage
                => /\ SnakeGameEnds
                   /\ snakeGame'.score > Stored(localStorage)
                   /\ localStorage' = toString(snakeGame'.score)
           /\ snakeGame'.highScore >= snakeGame.highScore
           /\ SnakeGameEnds => snakeGame'.highScore >= snakeGame'.score
         ]_vars

\* C25 witness: a game has ended with a score above the high score, and the
\* score is stored
C25_Witness ==
    /\ snakeGame.gameState = "GAME_OVER"
    /\ lastEvent.type = "tick"
    /\ snakeGame.score > 0
    /\ snakeGame.highScore = snakeGame.score
    /\ localStorage = toString(snakeGame.score)

Opposite(direction) ==
    CASE direction = "UP" -> "DOWN" [] direction = "DOWN" -> "UP"
      [] direction = "LEFT" -> "RIGHT" [] direction = "RIGHT" -> "LEFT"

\* the cell next to p in direction
Ahead(p, direction) ==
    CASE direction = "UP" -> [x |-> p.x, y |-> p.y - 1]
      [] direction = "DOWN" -> [x |-> p.x, y |-> p.y + 1]
      [] direction = "LEFT" -> [x |-> p.x - 1, y |-> p.y]
      [] direction = "RIGHT" -> [x |-> p.x + 1, y |-> p.y]

\* C36: the direction a tick applies is never the opposite of the direction
\* applied before it, and the cell the head steps to is never the cell of
\* the segment behind the head, whatever keys were pressed since the last
\* tick.
C36_SnakeNeverReverses ==
    [][ lastEvent'.type = "tick"
        => /\ snakeGame'.direction # Opposite(snakeGame.direction)
           /\ Ahead(snakeGame.snake[1], snakeGame'.direction) # snakeGame.snake[2] ]_vars

\* until the game is over nextDirection is never the opposite of direction,
\* and the segment behind the head is the cell opposite to direction
C36_NextDirectionIsNoReversal ==
    snakeGame.gameState # "GAME_OVER"
        => /\ snakeGame.nextDirection # Opposite(snakeGame.direction)
           /\ snakeGame.snake[2] = Ahead(snakeGame.snake[1], Opposite(snakeGame.direction))

\* C36 witness: the snake, which started to the right, turned twice and a
\* tick moved it to the left
C36_Witness ==
    /\ lastEvent.type = "tick"
    /\ snakeGame.gameState = "PLAYING"
    /\ snakeGame.direction = "LEFT"
    /\ snakeGame.snake[2] = Ahead(snakeGame.snake[1], "RIGHT")

\* apples eaten since initGame
Eaten(c) == c.score \div 10

MaxCorner == 2
MaxSide == 2

Rectangles ==
    [x : 0..MaxCorner, y : 0..MaxCorner, width : 0..MaxSide, height : 0..MaxSide]

InitOverlap ==
    /\ \E a \in Rectangles, b \in Rectangles :
           lastEvent = [type |-> "rectangles", a |-> a, b |-> b]
    /\ NoDrop /\ NoSnake /\ NoRocks /\ NoArcade
    /\ pending = <<>> /\ hung = FALSE
    /\ now = 0
    /\ mounted = TRUE
    /\ steps = 0

CallOverlapTests ==
    /\ lastEvent.type = "rectangles"
    /\ lastEvent' = [type |-> "tested", a |-> lastEvent.a, b |-> lastEvent.b,
                     collisionAB |-> checkCollision(lastEvent.a, lastEvent.b),
                     collisionBA |-> checkCollision(lastEvent.b, lastEvent.a),
                     overlapAB |-> checkOverlap(lastEvent.a, lastEvent.b),
                     overlapBA |-> checkOverlap(lastEvent.b, lastEvent.a)]
    /\ UNCHANGED <<dropVars, snakeVars, spaceRocks, arcadeVars, pending, hung, now,
                   mounted, steps>>

NextOverlap == CallOverlapTests

SpecOverlap == InitOverlap /\ [][NextOverlap]_vars

\* a and b share no interior point: one ends where the other begins
OnlyTouch(a, b) ==
    \/ a.x + a.width = b.x \/ b.x + b.width = a.x
    \/ a.y + a.height = b.y \/ b.y + b.height = a.y

\* C28: checkCollision(A, B) = checkCollision(B, A) and checkOverlap(A, B) =
\* checkOverlap(B, A) for all rectangles with sides >= 0, and both are false
\* for rectangles that only touch along an edge.
C28_OverlapTestsAreSymmetric ==
    lastEvent.type = "tested" =>
        /\ lastEvent.collisionAB = lastEvent.collisionBA
        /\ lastEvent.overlapAB = lastEvent.overlapBA
        /\ OnlyTouch(lastEvent.a, lastEvent.b)
              => ~lastEvent.collisionAB /\ ~lastEvent.overlapAB

\* C28 witness: two rectangles with sides > 0 of which the second begins
\* where the first ends, side by side on the same rows, have been tested in
\* both orders and do not overlap
C28_Witness ==
    /\ lastEvent.type = "tested"
    /\ lastEvent.a.width > 0 /\ lastEvent.a.height > 0
    /\ lastEvent.b.width > 0 /\ lastEvent.b.height > 0
    /\ lastEvent.a.x + lastEvent.a.width = lastEvent.b.x
    /\ lastEvent.a.y = lastEvent.b.y
    /\ ~lastEvent.collisionAB /\ ~lastEvent.collisionBA
    /\ ~lastEvent.overlapAB /\ ~lastEvent.overlapBA

(***************************************************************************)
(* The brick game on a page where document.getElementById('bustoutCanvas') *)
(* returns null, or where the element is there and getContext('2d')        *)
(* returns null.  initCanvas returns early (lines 266-270): in the first   *)
(* case this.canvas is null, in the second it is the element with the size *)
(* the page gave it, ctx is unset and neither paddleX, brickWidth nor the   *)
(* bricks are set.  Reading a property of a null canvas throws a TypeError; *)
(* thrown records that the handler ended that way.                         *)
(***************************************************************************)
NoCanvas == [null |-> TRUE]

\* what the page answers: is the element there, does it give a context, and
\* the size of the element (the default size of a canvas element)
Documents ==
    {[canvas |-> FALSE, context |-> FALSE, width |-> 0, height |-> 0],
     [canvas |-> TRUE, context |-> FALSE, width |-> 300, height |-> 150]}

initCanvasIn(c, document, window) ==
    IF ~document.canvas THEN [c EXCEPT !.canvas = NoCanvas]
    ELSE IF ~document.context
    THEN [c EXCEPT !.canvas = [width |-> document.width, height |-> document.height]]
    ELSE initCanvas(c, window)

\* startGame sets the two signals and then reads this.canvas.width (line 316)
startGameIn(w, side) ==
    IF w.c.canvas = NoCanvas
    THEN [w EXCEPT !.c.gameStarted = TRUE, !.c.gameOver = FALSE, !.thrown = TRUE]
    ELSE startGameBustout(w, side)

handleKeyDownIn(w, key, side) ==
    IF key = " " /\ ~w.c.gameStarted THEN startGameIn(w, side)
    ELSE handleKeyDownBustout(w, key, side)

\* if (this.canvas) { ... }
handleMouseMoveIn(c, relativeX) ==
    IF c.canvas = NoCanvas THEN c ELSE handleMouseMove(c, relativeX)

NoCanvasWorld == [c |-> bustout, pending |-> pending, thrown |-> FALSE]

NoCanvasEvent(type, key, w) == [type |-> type, key |-> key, thrown |-> w.thrown]

\* the page of the session: the one on which initCanvas left the canvas the
\* component has
PageOf(c) == {d \in Documents : d.canvas = (c.canvas # NoCanvas)}

InitNoCanvas ==
    /\ \E document \in Documents, window \in BustoutWindows :
          bustout = initCanvasIn(NewBustout, document, window)
    /\ pending = <<>>
    /\ NoDrop /\ NoSnake /\ NoRocks /\ NoFrogger /\ NoInvaders
    /\ hung = FALSE /\ now = 0
    /\ lastEvent = [type |-> "ngOnInit", key |-> "", thrown |-> FALSE]
    /\ mounted = TRUE
    /\ steps = 0

NoCanvasKeyDown ==
    /\ mounted
    /\ steps < MaxBustoutSteps
    /\ \E key \in BustoutKeys :
        \E side \in IF key = " " /\ ~bustout.gameStarted THEN Sides ELSE {1} :
            \E w \in {handleKeyDownIn(NoCanvasWorld, key, side)} :
                /\ SetBustoutWorld(w)
                /\ lastEvent' = NoCanvasEvent("keydown", key, w)
    /\ steps' = steps + 1
    /\ UNCHANGED <<mounted, OutsideBustout>>

NoCanvasKeyUp ==
    /\ mounted
    /\ steps < MaxBustoutSteps
    /\ \E key \in {"ArrowRight", "a"} :
        /\ IF key = "a" THEN bustout.leftPressed ELSE bustout.rightPressed
        /\ bustout' = handleKeyUpBustout(bustout, key)
        /\ lastEvent' = NoCanvasEvent("keyup", key, NoCanvasWorld)
    /\ steps' = steps + 1
    /\ UNCHANGED <<pending, mounted, OutsideBustout>>

NoCanvasMouseMove ==
    /\ mounted
    /\ steps < MaxBustoutSteps
    /\ \E relativeX \in MousePlaces :
        /\ bustout' = handleMouseMoveIn(bustout, relativeX)
        /\ lastEvent' = NoCanvasEvent("mousemove", "", NoCanvasWorld)
    /\ steps' = steps + 1
    /\ UNCHANGED <<pending, mounted, OutsideBustout>>

NoCanvasResize ==
    /\ mounted
    /\ steps < MaxBustoutSteps
    /\ \E document \in PageOf(bustout), window \in BustoutWindows :
        /\ bustout' = initCanvasIn(bustout, document, window)
    /\ lastEvent' = NoCanvasEvent("resize", "", NoCanvasWorld)
    /\ steps' = steps + 1
    /\ UNCHANGED <<pending, mounted, OutsideBustout>>

NoCanvasFrame ==
    /\ pending # <<>>
    /\ steps < MaxBustoutSteps
    /\ \E side \in Sides :
        \E w \in {BustoutFrameOf(NoCanvasWorld, side)} :
            /\ SetBustoutWorld(w)
            /\ lastEvent' = NoCanvasEvent("frame", "", w)
    /\ steps' = steps + 1
    /\ UNCHANGED <<mounted, OutsideBustout>>

NextNoCanvas ==
    \/ NoCanvasKeyDown \/ NoCanvasKeyUp \/ NoCanvasMouseMove \/ NoCanvasResize
    \/ NoCanvasFrame

SpecNoCanvas == InitNoCanvas /\ [][NextNoCanvas]_vars

\* C29: when the canvas element or its 2D context was missing at
\* initialisation, no later key press, mouse move, resize or frame raises an
\* error and none starts a loop.
C29_MissingCanvasIsSilentNoOp ==
    /\ ~lastEvent.thrown
    /\ pending = <<>>

\* mouse moves, resizes and the keys other than Space raise no error and
\* request no frame as long as Space has not been pressed
C29_SilentUntilSpace ==
    [][ ~(lastEvent'.type = "keydown" /\ lastEvent'.key = " ")
        /\ ~lastEvent.thrown /\ pending = <<>> /\ ~bustout.gameStarted
        => ~lastEvent'.thrown /\ pending' = <<>> ]_vars

(***************************************************************************)
(* The end of a level of the invader game: the frame in which the last     *)
(* invader is shot.  The states before that frame are built with the       *)
(* operators above: a bullet is one frame below an invader, and every      *)
(* other invader has been shot, each shot adding its points and stepping   *)
(* the speeds as the collision loop does.                                  *)
(***************************************************************************)
\* levels at which the last invader is about to be shot
StartLevels == {1, 2, 3}

\* the effect of a bullet on invader n (lines 536-541), the bullet aside
Shot(c, n) ==
    increaseInvaderSpeed(addScore([c EXCEPT !.invaders[n].active = FALSE],
                                  c.invaders[n].type))

\* the invaders of ns among lo..hi are shot, lowest index first
RECURSIVE ShootRange(_, _, _, _)
ShootRange(c, ns, lo, hi) ==
    IF lo > hi THEN c
    ELSE IF lo = hi THEN IF lo \in ns THEN Shot(c, lo) ELSE c
    ELSE Then(ShootRange(c, ns, lo, (lo + hi) \div 2), LAMBDA v :
             ShootRange(v, ns, (lo + hi) \div 2 + 1, hi))

ShootAll(c, ns) == ShootRange(c, ns, 1, Len(c.invaders))

Active(c) == {n \in DOMAIN c.invaders : c.invaders[n].active}

\* the levels below level are played to their end
RECURSIVE Promoted(_, _)
Promoted(c, level) ==
    IF c.level >= level THEN c
    ELSE Then(nextLevel(ShootAll(c, Active(c))), LAMBDA v : Promoted(v, level))

\* as ShotAfterGrowth(n), from level level
ShotAtLevel(level, n) ==
    Then(FreshInvaders([clientWidth |-> 160, clientHeight |-> 120]), LAMBDA fresh :
    Then(InvadersFrames([fresh EXCEPT !.c = Promoted(@, level)], n, 1001),
         LAMBDA stepped :
        QuickFrames([stepped EXCEPT !.c = handleKeyDownInvaders(
                         onResizeInvaders(@, LargeContainer), " ")], 5)))

\* the invaders that the next frame's collisions deactivate
UnderFire(w) ==
    Then(QuickFrames(w, 1), LAMBDA v : Active(w.c) \ Active(v.c))

\* every invader but those under fire has been shot
LastUnderFire(w) ==
    Then(UnderFire(w), LAMBDA ns : [w EXCEPT !.c = ShootAll(@, Active(w.c) \ ns)])

LevelStarts ==
    {LastUnderFire(w) : w \in {ShotAtLevel(level, 2) : level \in StartLevels}}

InitLevel ==
    /\ \E w \in LevelStarts :
          /\ invaders = w.c
          /\ pending = w.pending
          /\ now = Max2(MountTime, w.c.lastTime)
          /\ lastEvent = InvadersEvent("frame", "", w)
    /\ NoDrop /\ NoSnake /\ NoRocks /\ NoBustout /\ NoFrogger
    /\ hung = FALSE
    /\ mounted = TRUE
    /\ steps = 0

SpecLevel == InitLevel /\ [][NextInvaders]_vars

\* C30: right after a frame that ends a level, invaderSpeed is
\* 12 + 0.5 x (level - 1) and animationSpeed is max(10, 1000 - 2 x (level - 1))
\* for the new level, whatever the invaders shot before had added.
\* invaderSpeed is in tenths.
C30_NextLevelResetsSpeeds ==
    [][ invaders'.level = invaders.level + 1
        => /\ invaders'.invaderSpeed = 120 + 5 * (invaders'.level - 1)
           /\ invaders'.animationSpeed = Max2(10, 1000 - 2 * (invaders'.level - 1)) ]_vars

\* the frame that ended level 3: 55 invaders shot had brought the speeds to
\* 40.5 and 446 ms
C30_Witness ==
    /\ lastEvent.type = "frame" /\ lastEvent.trace # <<>>
    /\ lastEvent.trace[1].collided.invaderSpeed = 405
    /\ lastEvent.trace[1].collided.animationSpeed = 446
    /\ invaders.level = 4 /\ invaders.invaderSpeed = 135 /\ invaders.animationSpeed = 994
    /\ \A n \in DOMAIN invaders.invaders : invaders.invaders[n].active

(***************************************************************************)
(* The row of the goals in the frog-crossing game.  The sessions start     *)
(* with the frog in row 1 after thirteen hops with no frame in between, at *)
(* levels 1 to 3 (the key n skips a level), with goals filled by earlier   *)
(* crossings, a female frog waiting in the middle goal, or the alligator   *)
(* of the middle goal active after 60 frames.                              *)
(***************************************************************************)
\* the female frog is drawn, in the third of the empty goals
FemaleDraws == [timers |-> <<60, 60, 60>>, female |-> TRUE, goal |-> 5]

\* n presses of key
RECURSIVE Presses(_, _, _, _)
Presses(w, key, n, draws) ==
    IF n = 0 THEN w
    ELSE Then([w EXCEPT !.c = handleKeyDownFrogger(@, key, draws)],
              LAMBDA v : Presses(v, key, n - 1, draws))

\* n frames
RECURSIVE FroggerFrames(_, _)
FroggerFrames(w, n) ==
    IF n = 0 THEN w
    ELSE IF n = 1 THEN FroggerFrameOf(w, NoDraws)
    ELSE Then(FroggerFrames(w, n \div 2), LAMBDA v : FroggerFrames(v, n - n \div 2))

\* the frog hops from the start to row 1 and then sideways (hops to the
\* right when sideways > 0, to the left when sideways < 0) with no frame
InRowOne(w, sideways) ==
    Then(Hops(w, 13), LAMBDA up :
        IF sideways >= 0 THEN Presses(up, "d", sideways, NoDraws)
        ELSE Presses(up, "ArrowLeft", -sideways, NoDraws))

\* the frog crosses to each goal of homes in turn, one frame for each
RECURSIVE Crossings(_, _)
Crossings(w, homes) ==
    IF homes = <<>> THEN w
    ELSE Then(FroggerFrameOf(InRowOne(w, Head(homes)), NoDraws),
              LAMBDA v : Crossings(v, Tail(homes)))

\* sideways hops that lead into goals 0, 1, 3, 4 and into goal 2
OtherGoals == <<-11, -6, 5, 11>>
MiddleGoal == <<0>>

GoalStarts ==
    LET fresh == FreshFrogger([innerWidth |-> 1400, innerHeight |-> 600])
        second == Presses(fresh, "n", 1, FemaleDraws)
        third == Presses(second, "n", 1, NoDraws)
    IN  {InRowOne(w, 0) :
            w \in {fresh, Crossings(fresh, OtherGoals), Crossings(fresh, MiddleGoal),
                   second, Crossings(second, OtherGoals),
                   FroggerFrames(third, 60)}}

InitGoal ==
    /\ \E w \in GoalStarts :
          /\ frogger = w.c
          /\ pending = w.pending
    /\ NoDrop /\ NoSnake /\ NoRocks /\ NoBustout /\ NoInvaders
    /\ hung = FALSE /\ now = 0
    /\ lastEvent = [type |-> "keydown", key |-> "ArrowUp"]
    /\ mounted = TRUE
    /\ steps = 0

SpecGoal == InitGoal /\ [][NextFrogger]_vars

\* the goal zone the frog is in, -1 outside the zones (lines 280-284)
GoalOf(c) ==
    LET goalIndex == (c.frog.x + Mil(FROG_SIZE) \div 2) \div (Mil(CANVAS_WIDTH) \div 5)
        goalX == goalIndex * (Mil(CANVAS_WIDTH) \div 5) + Mil(60)
    IN  IF /\ goalIndex >= 0 /\ goalIndex < 5
           /\ c.frog.x + Mil(FROG_SIZE) > goalX /\ c.frog.x < goalX + Mil(80)
        THEN goalIndex ELSE -1

GatorIn(c, g) ==
    \E i \in DOMAIN c.alligators :
        c.alligators[i].goalIndex = g /\ c.alligators[i].isActive

FemaleIn(c, g) ==
    /\ c.femaleFrog # NoFemaleFrog
    /\ c.femaleFrog.goalIndex = g /\ c.femaleFrog.isActive

AtStart(c) == c.frog.x = Mil(14 * CELL_SIZE) /\ c.frog.y = Mil(14 * CELL_SIZE)

\* C31: a frame that finds the frog in row 1 inside an empty goal zone with
\* no active alligator fills that goal, adds 100 points (600 with the female
\* frog in that goal) and puts the frog at the start, and when that goal was
\* the last empty one the level grows by one and all goals are empty again;
\* in a filled goal, a goal with an active alligator or outside the zones
\* the frame takes one life and fills nothing.  In every state some goal is
\* empty.  The alligators and the female frog are as update leaves them
\* before it looks at the frog.
C31_GoalRow ==
    /\ [](\E i \in DOMAIN frogger.goals : ~frogger.goals[i])
    /\ [][ /\ lastEvent'.type = "frame" /\ Len(pending) = 1
           /\ ~frogger.gameOver /\ ~frogger.won
           /\ frogger.frog.y \div Mil(CELL_SIZE) = 1
           => \E at \in {moveObstacles(frogger)} : \E g \in {GoalOf(at)} :
                IF g >= 0 /\ ~at.goals[g + 1] /\ ~GatorIn(at, g)
                THEN /\ frogger'.score = frogger.score + (IF FemaleIn(at, g) THEN 600 ELSE 100)
                     /\ frogger'.lives = frogger.lives
                     /\ AtStart(frogger')
                     /\ IF \A i \in DOMAIN at.goals : i # g + 1 => at.goals[i]
                        THEN frogger'.level = frogger.level + 1 /\ frogger'.goals = NoGoals
                        ELSE /\ frogger'.level = frogger.level
                             /\ frogger'.goals = [frogger.goals EXCEPT ![g + 1] = TRUE]
                ELSE /\ frogger'.lives = frogger.lives - 1
                     /\ frogger'.score = frogger.score
                     /\ frogger'.level = frogger.level
                     /\ frogger'.goals = frogger.goals
                     /\ frogger'.gameOver = (frogger'.lives <= 0)
                     /\ frogger'.gameOver \/ AtStart(frogger') ]_vars

\* C31 witness: at level 2 the frog joined the female frog in the last empty
\* goal: 4 crossings of 13 hops and 100 points, then 13 hops and 600 points
C31_Witness ==
    /\ lastEvent.type = "frame"
    /\ frogger.level = 3 /\ frogger.goals = NoGoals
    /\ frogger.score = 4 * 230 + 130 + 600
    /\ frogger.lives = 3
    /\ AtStart(frogger)

\* C40: won is false in every reachable state; a frame of a game that is not
\* over runs update (the cars move), so game over is the only phase in
\* which the game stands still; the frame that fills the fifth goal adds
\* one to level, whatever the level is, and the game goes on.
C40_WonIsNeverSet ==
    /\ ~frogger.won
    /\ [][/\ ~frogger'.won
          /\ (lastEvent'.type = "frame" /\ ~frogger.gameOver)
             => /\ frogger'.cars # frogger.cars
                /\ frogger'.level \in {frogger.level, frogger.level + 1}
                /\ (/\ Cardinality({i \in DOMAIN frogger.goals : ~frogger.goals[i]}) = 1
                    /\ frogger'.goals = NoGoals)
                   => (frogger'.level = frogger.level + 1 /\ ~frogger'.gameOver)]_vars

\* the fifth goal of level 2 was filled: the game is at level 3, not won and
\* not over
C40_Witness ==
    /\ lastEvent.type = "frame"
    /\ frogger.level = 3 /\ frogger.goals = NoGoals /\ frogger.score > 0
    /\ ~frogger.won /\ ~frogger.gameOver

(***************************************************************************)
(* The brick game after a level was completed.  The session is built with  *)
(* the operators above: the first ball is one frame below the first brick  *)
(* it hits, every other brick has been hit (each hit adds the points of    *)
(* its brick), the next frame ends level 1, and the player, who never      *)
(* moves the paddle, loses the five balls of level 2.                      *)
(***************************************************************************)
\* the effect of a ball on brick n (lines 425-427), the ball aside
Broken(c, n) ==
    [c EXCEPT !.bricks[n].active = FALSE, !.score = @ + c.bricks[n].points]

\* the bricks of ns among lo..hi are hit, lowest index first
RECURSIVE BreakRange(_, _, _, _)
BreakRange(c, ns, lo, hi) ==
    IF lo > hi THEN c
    ELSE IF lo = hi THEN IF lo \in ns THEN Broken(c, lo) ELSE c
    ELSE Then(BreakRange(c, ns, lo, (lo + hi) \div 2), LAMBDA v :
             BreakRange(v, ns, (lo + hi) \div 2 + 1, hi))

ActiveBricks(c) == {n \in DOMAIN c.bricks : c.bricks[n].active}

\* the bricks that the next frame hits
NextHit(w) ==
    Then(BustoutFrameOf(w, 1), LAMBDA v : ActiveBricks(w.c) \ ActiveBricks(v.c))

\* frames go by until the next one hits a brick
RECURSIVE BelowBrick(_)
BelowBrick(w) ==
    IF NextHit(w) # {} THEN w
    ELSE Then(BustoutFrameOf(w, 1), LAMBDA v : BelowBrick(v))

LastBrick ==
    Then(BelowBrick(handleKeyDownBustout(
             FreshBustout([innerWidth |-> 788, innerHeight |-> 400]), " ", 1)), LAMBDA w :
    Then(NextHit(w), LAMBDA ns :
        [w EXCEPT !.c = BreakRange(@, ActiveBricks(w.c) \ ns, 1, Len(w.c.bricks))]))

\* frames enough for the five balls of level 2
FramesOfLevelTwo == 1000

\* level 1 is completed and the game is over at level 2
OverAtLevelTwo == BustoutFrames(BustoutFrameOf(LastBrick, 1), FramesOfLevelTwo, 1)

InitReset ==
    /\ \E w \in {LastBrick, OverAtLevelTwo} :
          /\ bustout = w.c
          /\ pending = w.pending
    /\ NoDrop /\ NoSnake /\ NoRocks /\ NoFrogger /\ NoInvaders
    /\ hung = FALSE /\ now = 0
    /\ lastEvent = [type |-> "frame", key |-> ""]
    /\ mounted = TRUE
    /\ steps = 0

SpecReset == InitReset /\ [][NextBustout]_vars

\* C35: after the key r on the game-over screen, and after the start that
\* follows, score is 0, lives 5, level 1, every brick is active and the
\* ball speed is the initial 4, whatever level the game before had reached.
C35_ResetRestoresEveryValue ==
    (/\ lastEvent.type = "keydown" /\ lastEvent.key \in {"r", " "}
     /\ bustout.score = 0 /\ bustout.lives = 5 /\ ~bustout.gameOver)
        => /\ bustout.level = 1
           /\ \A n \in DOMAIN bustout.bricks : bustout.bricks[n].active
           /\ bustout.ballSpeed = Px(4)
           /\ \A i \in DOMAIN bustout.balls :
                 Abs(bustout.balls[i].dx) = Px(4) /\ bustout.balls[i].dy = -Px(4)

\* the key r on the game-over screen resets score, lives, level, the
\* bricks and both signals
C35_ResetRestoresProgress ==
    [][ lastEvent'.type = "keydown" /\ lastEvent'.key = "r" /\ bustout.gameOver
        => /\ bustout'.score = 0 /\ bustout'.lives = 5 /\ bustout'.level = 1
           /\ \A n \in DOMAIN bustout'.bricks : bustout'.bricks[n].active
           /\ ~bustout'.gameOver /\ ~bustout'.gameStarted /\ bustout'.balls = <<>> ]_vars

(***************************************************************************)
(* A whole game of snake on the grid of 4 x 3 cells.  The player steers    *)
(* the snake along a closed path through all twelve cells; after two ticks *)
(* the snake lies on the path, and from then on every apple is drawn on    *)
(* the next cell of the path.                                              *)
(***************************************************************************)
SmallWindow == [innerWidth |-> 90, innerHeight |-> 70]

\* the outcomes of a call of F, one for each draw, that leave the apple on
\* the cell target
WithAppleAt(F(_), target) ==
    CHOOSE w \in {F(draw) : draw \in AppleDraws} : w.c.apple = target

\* a direction key and then a tick; a tick that eats draws the next apple on
\* the cell target
Turn(w, key, target) ==
    Then(onKeyDown(w, key, 0), LAMBDA turned :
        IF Ahead(turned.c.snake[1], turned.c.nextDirection) = turned.c.apple
        THEN WithAppleAt(LAMBDA draw : updateSnake(turned, draw), target)
        ELSE updateSnake(turned, 0))

\* the keys of the path from the second tick on; the first apple is drawn
\* on PathCells[1], and the tick after key n >= 2 eats the apple of
\* PathCells[n - 1] and draws the next one on PathCells[n]
PathKeys ==
    <<"ArrowRight", "ArrowUp", "ArrowUp", "ArrowLeft", "ArrowLeft", "ArrowLeft",
      "ArrowDown", "ArrowDown", "ArrowRight">>
PathCells ==
    <<[x |-> 3, y |-> 1], [x |-> 3, y |-> 0], [x |-> 2, y |-> 0], [x |-> 1, y |-> 0],
      [x |-> 0, y |-> 0], [x |-> 0, y |-> 1], [x |-> 0, y |-> 2], [x |-> 1, y |-> 2],
      [x |-> 1, y |-> 1]>>

\* the first n keys of the path after the start and the first turn down
RECURSIVE AlongPath(_)
AlongPath(n) ==
    IF n = 0
    THEN Turn(onKeyDown(WithAppleAt(LAMBDA draw : ngOnInitSnake(NoItem, SmallWindow, draw),
                                    PathCells[1]), " ", 0),
              "ArrowDown", PathCells[1])
    ELSE Then(AlongPath(n - 1), LAMBDA w :
             Turn(w, PathKeys[n], PathCells[n]))

\* the snake has 11 segments and the last free cell holds the apple
OneCellLeft == AlongPath(Len(PathKeys))

InitApple ==
    /\ \E n \in {3, 6, Len(PathKeys)} : SetSnakeNow(AlongPath(n))
    /\ viewport = SmallWindow
    /\ lastEvent = [type |-> "tick", key |-> "", before |-> "PLAYING"]
    /\ NoDrop /\ NoRocks /\ NoArcade /\ pending = <<>>
    /\ now = MountTime
    /\ mounted = TRUE
    /\ steps = 0

SpecApple == InitApple /\ [][NextSnake]_vars

\* C38: every call of spawnApple ends: no handler is left in the loop of
\* spawnApple.
C38_SpawnAppleTerminates == ~hung

\* a step that moves the apple leaves it on a cell of the grid that no
\* segment of the snake occupies
C38_AppleOnFreeCell ==
    [][ snakeGame'.apple # snakeGame.apple
        => /\ snakeGame'.apple.x \in 0..(snakeGame'.cols - 1)
           /\ snakeGame'.apple.y \in 0..(snakeGame'.rows - 1)
           /\ ~OnSnake(snakeGame', snakeGame'.apple) ]_vars


(***************************************************************************)
(* The ways a player bullet of the invaders game ends: the game starts     *)
(* with one bullet in flight that is about to meet each of them.           *)
(***************************************************************************)
\* the formation is one drop from the player; the player moves right for
\* six frames and shoots: the bullet rises between two columns of invaders
BulletBesideColumn ==
    Then(QuickFrames([InvadersNearPlayer EXCEPT !.c = handleKeyDownInvaders(@, "d")], 6),
         LAMBDA moved : [moved EXCEPT !.c = handleKeyDownInvaders(@, " ")])

\* n frames 16 ms apart, by halves
RECURSIVE ManyQuickFrames(_, _)
ManyQuickFrames(w, n) ==
    IF n <= 4 THEN QuickFrames(w, n)
    ELSE CHOOSE r \in {ManyQuickFrames(v, n - n \div 2) :
                          v \in {ManyQuickFrames(w, n \div 2)}} : TRUE

\* the game starts in the small container and the player moves left for n
\* frames and stops
MovedLeft(n) ==
    Then(ManyQuickFrames(
             [FreshInvaders([clientWidth |-> 160, clientHeight |-> 120])
                 EXCEPT !.c = handleKeyDownInvaders(@, "ArrowLeft")], n),
         LAMBDA moved : [moved EXCEPT !.c = handleKeyUpInvaders(@, "ArrowLeft")])

\* the container grows and the player shoots
GrowsAndShoots(w) ==
    [w EXCEPT !.c = handleKeyDownInvaders(onResizeInvaders(@, LargeContainer), " ")]

\* the bullet is one frame below a barrier segment
BulletUnderBarrier == GrowsAndShoots(MovedLeft(20))

\* the player is at the left edge, beside the formation and the barriers,
\* and the bullet is one frame below the top of the screen
BulletNearTop == QuickFrames(GrowsAndShoots(MovedLeft(125)), 11)

\* the player is at the left edge; after 16 s the container grows and the
\* mother ship comes in from the left; 20 frames later the player shoots and
\* the bullet is one frame below the mother ship
BulletUnderMotherShip ==
    Then(InvadersFrames(MovedLeft(125), 16, 1001), LAMBDA late :
    Then([late EXCEPT !.c = onResizeInvaders(@, LargeContainer)], LAMBDA grown :
    Then(InvadersFrameOf(grown, grown.c.lastTime + 16,
                         [spawn |-> TRUE, direction |-> 1, points |-> 3, shooter |-> 0]),
         LAMBDA spawned :
    Then(ManyQuickFrames(spawned, 20), LAMBDA near :
        QuickFrames([near EXCEPT !.c = handleKeyDownInvaders(@, " ")], 5)))))

BulletStarts ==
    {BulletBesideColumn, BulletUnderBarrier, BulletNearTop, BulletUnderMotherShip}

InitBullet ==
    /\ \E w \in BulletStarts :
          /\ invaders = w.c
          /\ pending = w.pending
          /\ now = Max2(MountTime, w.c.lastTime)
          /\ lastEvent = InvadersEvent("frame", "", w)
    /\ NoDrop /\ NoSnake /\ NoRocks /\ NoBustout /\ NoFrogger
    /\ hung = FALSE
    /\ mounted = TRUE
    /\ steps = 0

SpecBullet == InitBullet /\ [][NextInvaders]_vars

====
